---- MODULE Spec2Model ----
(***************************************************************************)
(* Model of the content structuring pipeline of the PPTX automation tool   *)
(* (src/content_processor.py).  Strings are sequences of one-character     *)
(* strings, Python lists are sequences, and a call of a method of          *)
(* ContentProcessor is one action that stores what the call returned (or   *)
(* the exception it raised).                                               *)
(***************************************************************************)
EXTENDS Integers, Sequences, FiniteSets

VARIABLES
    language,      \* the processor's language, set by its constructor
    text,          \* the text argument of the call
    pc,            \* "ready", then the name of the call that was made
    split_sentences, \* the list _split_into_sentences returned
    slides_count,  \* the slides_count argument of summarize_and_outline
    slides,        \* the list summarize_and_outline returned
    raised,        \* "none" or the exception the call raised
    count,         \* the count argument of extract_key_ideas
    ideas,         \* the list extract_key_ideas returned
    max_bullets,   \* spec["length_target"]: Present(bullets_per_slide_max) or Absent
    is_valid,      \* first component of validate_content's result
    warnings,      \* second component of validate_content's result
    files,         \* the paths that exist on the filesystem
    description,   \* the description argument of research_and_expand
    target_words,  \* the target_words argument of research_and_expand
    expanded,      \* the string research_and_expand returned
    audio_paths,   \* the audio_paths argument of transcribe_audio
    transcript,    \* the string transcribe_audio returned
    spec,          \* the spec argument of build_presentation
    slides_content, \* build_presentation's list slides_content, as it is now
    pptx,          \* the deck generate_pptx saved
    html,          \* the page generate_html saved
    spec_valid,    \* first component of validate_spec's result
    errors,        \* second component of validate_spec's result
    merged,        \* the dict merge_with_defaults returned
    builder,       \* the spec of the SpecBuilder
    history,       \* the setter calls made on the builder, oldest first
    brand_name_var,      \* the GUI's brand name entry
    slides_count_var,    \* the GUI's slide count spinbox: a number or other text
    description_textbox, \* the GUI's description box
    image_paths,         \* the GUI's list of selected images
    primary_color_var,   \* the GUI's primary colour entry
    status_label,        \* the text of the GUI's status bar
    messagebox,          \* the dialog the GUI showed last, "none" before the first
    result,              \* generate_presentation's local result, Absent until assigned
    platform             \* "win32" or another value of sys.platform

\* the variables of the calls of ContentProcessor
procVars == <<language, text, pc, split_sentences, slides_count, slides, raised, count,
              ideas, max_bullets, is_valid, warnings>>

\* the variables of the other components
expandVars == <<description, target_words, expanded>>

audioVars == <<audio_paths, transcript>>

buildVars == <<spec, slides_content, pptx, html>>

configVars == <<spec_valid, errors, merged>>

builderVars == <<builder, history>>

guiVars == <<brand_name_var, slides_count_var, description_textbox, image_paths,
             primary_color_var, status_label, messagebox, result, platform>>

otherVars == <<files, expandVars, audioVars, buildVars, configVars, builderVars, guiVars>>

vars == <<procVars, otherVars>>

----------------------------------------------------------------------------
(* Bounds of the model *)

MaxChars == 3
MaxSegs == 4
LongExtra == 1
NegSlides == 1
MaxSlidesCount == 5
MaxCount == 3
NegCount == 2
LimitSpread == 1

(* Program constants *)

MaxBulletLen == 120
TruncKeep == 117
DefaultMaxBullets == 6
MinSentencesPerSlide == 3
TitleWords == 5
DefaultBulletsPerSlideMax == 6
LongBulletLimit == 150

\* Python's None: a value equal to no string (a string is a sequence of
\* one-character strings)
None == <<"None">>
\* a dictionary key that is absent: the empty sequence; present: <<value>>
Absent == << >>
Present(v) == <<v>>

----------------------------------------------------------------------------
(* Python primitives used by the code *)

Min(a, b) == IF a <= b THEN a ELSE b
Max(a, b) == IF a >= b THEN a ELSE b

\* Python's // for a non-zero divisor: the floor of the exact quotient.
FloorDiv(a, b) ==
    LET aa == IF a < 0 THEN 0 - a ELSE a
        bb == IF b < 0 THEN 0 - b ELSE b
        q  == aa \div bb
    IN  IF (a < 0) = (b < 0) THEN q
        ELSE IF q * bb = aa THEN 0 - q ELSE 0 - q - 1

\* Python's s[lo:hi] on a list or a string, negative indices included.
PySlice(s, lo, hi) ==
    LET n == Len(s)
        l == IF lo < 0 THEN Max(0, n + lo) ELSE Min(lo, n)
        h == IF hi < 0 THEN Max(0, n + hi) ELSE Min(hi, n)
    IN  SubSeq(s, l + 1, h)

\* str.isspace for one character.
IsSpace(c) == c \in {" ", "\n", "\t"}

\* The character class [.!?] of the splitting pattern.
IsTerminator(c) == c \in {".", "!", "?"}

\* Left-to-right scans of a string: the first index k >= i whose character is
\* (not) whitespace or (not) a terminator, Len(s) + 1 if there is none.
FirstNonSpace(s, i) ==
    IF \E k \in i..Len(s) : ~IsSpace(s[k])
    THEN CHOOSE k \in i..Len(s) : ~IsSpace(s[k]) /\ \A m \in i..(k - 1) : IsSpace(s[m])
    ELSE Len(s) + 1

FirstSpace(s, i) ==
    IF \E k \in i..Len(s) : IsSpace(s[k])
    THEN CHOOSE k \in i..Len(s) : IsSpace(s[k]) /\ \A m \in i..(k - 1) : ~IsSpace(s[m])
    ELSE Len(s) + 1

FirstTerminator(s, i) ==
    IF \E k \in i..Len(s) : IsTerminator(s[k])
    THEN CHOOSE k \in i..Len(s) : IsTerminator(s[k]) /\ \A m \in i..(k - 1) : ~IsTerminator(s[m])
    ELSE Len(s) + 1

FirstNonTerminator(s, i) ==
    IF \E k \in i..Len(s) : ~IsTerminator(s[k])
    THEN CHOOSE k \in i..Len(s) : ~IsTerminator(s[k]) /\ \A m \in i..(k - 1) : IsTerminator(s[m])
    ELSE Len(s) + 1

\* The right-to-left scan: the last index k <= j whose character is not
\* whitespace, 0 if there is none.
LastNonSpace(s, j) ==
    IF \E k \in 1..j : ~IsSpace(s[k])
    THEN CHOOSE k \in 1..j : ~IsSpace(s[k]) /\ \A m \in (k + 1)..j : IsSpace(s[m])
    ELSE 0

\* str.strip()
Strip(s) == SubSeq(s, FirstNonSpace(s, 1), LastNonSpace(s, Len(s)))

\* str.split(): the maximal runs of non-whitespace characters, from index i on.
RECURSIVE SplitWords(_, _)
SplitWords(s, i) ==
    LET b == FirstNonSpace(s, i)
        e == FirstSpace(s, b)
    IN  IF b > Len(s) THEN << >>
        ELSE <<SubSeq(s, b, e - 1)>> \o SplitWords(s, e)

\* " ".join(words)
RECURSIVE JoinSpace(_)
JoinSpace(words) ==
    IF words = << >> THEN << >>
    ELSE IF Len(words) = 1 THEN words[1]
    ELSE words[1] \o <<" ">> \o JoinSpace(Tail(words))

\* re.split(r'[.!?]+', s): the pieces between the maximal runs of terminators,
\* empty pieces at either end included; i is where the current piece starts.
RECURSIVE ReSplit(_, _)
ReSplit(s, i) ==
    LET j == FirstTerminator(s, i)
    IN  IF j > Len(s) THEN <<SubSeq(s, i, Len(s))>>
        ELSE <<SubSeq(s, i, j - 1)>> \o ReSplit(s, FirstNonTerminator(s, j))

\* [f(x) for x in xs]
RECURSIVE MapStrip(_)
MapStrip(xs) ==
    IF xs = << >> THEN << >> ELSE <<Strip(Head(xs))>> \o MapStrip(Tail(xs))

NonEmpty(s) == s # << >>

----------------------------------------------------------------------------
(* ContentProcessor *)

\* a variant that forgets to strip the pieces
SplitWithoutStrip(t) == SelectSeq(ReSplit(t, 1), NonEmpty)

\* _split_into_sentences
SplitIntoSentences(t) == SelectSeq(MapStrip(ReSplit(t, 1)), NonEmpty)

Ellipsis == <<".", ".", ".">>

DigitChar(d) == <<"0", "1", "2", "3", "4", "5", "6", "7", "8", "9">>[d + 1]

\* str(n) for n >= 0
RECURSIVE ToStr(_)
ToStr(n) == IF n < 10 THEN <<DigitChar(n)>> ELSE ToStr(n \div 10) \o <<DigitChar(n % 10)>>

\* get_text('section', language): Spanish unless the language is English
SectionLabel(lang) ==
    IF lang = "en" THEN <<"S", "e", "c", "t", "i", "o", "n">>
    ELSE <<"S", "e", "c", "c", "i", "o_acute", "n">>

\* a variant that marks the cut only from seven words on
GenerateTitleLateEllipsis(lang, section_num, sentences) ==
    IF sentences # << >>
    THEN LET first_sentence == sentences[1]
             words == PySlice(SplitWords(first_sentence, 1), 0, TitleWords)
             title == JoinSpace(words)
         IN  IF Len(SplitWords(first_sentence, 1)) > TitleWords + 1
             THEN title \o Ellipsis
             ELSE title
    ELSE SectionLabel(lang) \o <<" ">> \o ToStr(section_num)

\* _generate_title
GenerateTitle(lang, section_num, sentences) ==
    IF sentences # << >>
    THEN LET first_sentence == sentences[1]
             words == PySlice(SplitWords(first_sentence, 1), 0, TitleWords)
             title == JoinSpace(words)
         IN  IF Len(SplitWords(first_sentence, 1)) > TitleWords
             THEN title \o Ellipsis
             ELSE title
    ELSE SectionLabel(lang) \o <<" ">> \o ToStr(section_num)

\* a variant that keeps MaxBulletLen characters before the ellipsis
BulletNoRoomForEllipsis(sentence) ==
    LET bullet == Strip(sentence)
    IN  IF Len(bullet) > MaxBulletLen
        THEN PySlice(bullet, 0, MaxBulletLen) \o <<".", ".", ".">>
        ELSE bullet

\* the body of the loop of _generate_bullets
Bullet(sentence) ==
    LET bullet == Strip(sentence)
    IN  IF Len(bullet) > MaxBulletLen
        THEN PySlice(bullet, 0, TruncKeep) \o Ellipsis
        ELSE bullet

RECURSIVE MapBullet(_)
MapBullet(xs) ==
    IF xs = << >> THEN << >> ELSE <<Bullet(Head(xs))>> \o MapBullet(Tail(xs))

\* variants: no cap on the bullets, and a cap that is one too small
GenerateBulletsNoCap(sentences) == MapBullet(sentences)
GenerateBulletsCapMinusOne(sentences) ==
    MapBullet(PySlice(sentences, 0, DefaultMaxBullets - 1))

\* a variant with a cap of seven bullets
GenerateBulletsCapPlusOne(sentences) ==
    MapBullet(PySlice(sentences, 0, DefaultMaxBullets + 1))

\* _generate_bullets with max_bullets left at its default
GenerateBullets(sentences) == MapBullet(PySlice(sentences, 0, DefaultMaxBullets))

SlideContent(title, bullets) ==
    [title |-> title, bullets |-> bullets, image_path |-> None, alt |-> << >>]

\* a variant with a minimum of two sentences per slide
SentencesPerSlideMinTwo(n, content_slides) ==
    Max(2, FloorDiv(n, content_slides))

\* a variant that rounds the quotient up
SentencesPerSlideRoundUp(n, content_slides) ==
    Max(MinSentencesPerSlide, 0 - FloorDiv(0 - n, content_slides))

SentencesPerSlide(n, content_slides) ==
    Max(MinSentencesPerSlide, FloorDiv(n, content_slides))

\* variants that subtract the wrong number of fixed slides
ContentSlidesMinusOne(sc) == sc - 1
ContentSlidesMinusThree(sc) == sc - 3

ContentSlides(sc) == sc - 2

\* a variant whose windows overlap
WindowStartUnscaled(i, sentences_per_slide) == i

WindowStart(i, sentences_per_slide) == i * sentences_per_slide

\* a variant that pads with an empty placeholder slide instead of stopping
RECURSIVE OutlineLoopPadding(_, _, _, _, _)
OutlineLoopPadding(lang, sentences, sentences_per_slide, content_slides, i) ==
    IF i >= content_slides THEN << >>
    ELSE LET start_idx == WindowStart(i, sentences_per_slide)
             end_idx == start_idx + sentences_per_slide
             slide_sentences == PySlice(sentences, start_idx, end_idx)
         IN  <<SlideContent(GenerateTitle(lang, i + 1, slide_sentences),
                            GenerateBullets(slide_sentences))>>
             \o OutlineLoopPadding(lang, sentences, sentences_per_slide,
                                   content_slides, i + 1)

\* the for loop of summarize_and_outline from index i on
RECURSIVE OutlineLoop(_, _, _, _, _)
OutlineLoop(lang, sentences, sentences_per_slide, content_slides, i) ==
    IF i >= content_slides THEN << >>
    ELSE LET start_idx == WindowStart(i, sentences_per_slide)
             end_idx == start_idx + sentences_per_slide
             slide_sentences == PySlice(sentences, start_idx, end_idx)
         IN  IF slide_sentences = << >> THEN << >>
             ELSE <<SlideContent(GenerateTitle(lang, i + 1, slide_sentences),
                                 GenerateBullets(slide_sentences))>>
                  \o OutlineLoop(lang, sentences, sentences_per_slide,
                                 content_slides, i + 1)

\* summarize_and_outline: what it returns and what it raises
OutlineRaises(t, sc) == ContentSlides(sc) = 0

OutlineSlides(lang, t, sc) ==
    LET sentences == SplitIntoSentences(t)
    IN  OutlineLoop(lang, sentences,
                    SentencesPerSlide(Len(sentences), ContentSlides(sc)),
                    ContentSlides(sc), 0)

\* a variant that returns one sentence too many
ExtractKeyIdeasOneMore(t, cnt) == PySlice(SplitIntoSentences(t), 0, cnt + 1)

\* extract_key_ideas
ExtractKeyIdeas(t, cnt) == PySlice(SplitIntoSentences(t), 0, cnt)

\* validate_content: the warnings, one record per message the code formats
BulletWarnings(bullets, i, j) ==
    IF Len(bullets[j]) > LongBulletLimit
    THEN <<[kind |-> "long_bullet", slide |-> i, bullet |-> j, chars |-> Len(bullets[j])]>>
    ELSE << >>

RECURSIVE LongBulletWarnings(_, _, _)
LongBulletWarnings(bullets, i, j) ==
    IF j > Len(bullets) THEN << >>
    ELSE BulletWarnings(bullets, i, j) \o LongBulletWarnings(bullets, i, j + 1)

\* a variant that already flags a slide with exactly the allowed bullets
SlideWarningsAtLimit(slide, i, limit, existing) ==
    (IF Len(slide.bullets) >= limit
     THEN <<[kind |-> "bullets", slide |-> i, bullets |-> Len(slide.bullets), max |-> limit]>>
     ELSE << >>)
    \o LongBulletWarnings(slide.bullets, i, 1)
    \o (IF slide.image_path # None /\ slide.image_path # << >> /\ slide.image_path \notin existing
        THEN <<[kind |-> "image", slide |-> i, path |-> slide.image_path]>>
        ELSE << >>)

SlideWarnings(slide, i, limit, existing) ==
    (IF Len(slide.bullets) > limit
     THEN <<[kind |-> "bullets", slide |-> i, bullets |-> Len(slide.bullets), max |-> limit]>>
     ELSE << >>)
    \o LongBulletWarnings(slide.bullets, i, 1)
    \o (IF slide.image_path # None /\ slide.image_path # << >> /\ slide.image_path \notin existing
        THEN <<[kind |-> "image", slide |-> i, path |-> slide.image_path]>>
        ELSE << >>)

RECURSIVE ContentWarnings(_, _, _, _)
ContentWarnings(content, i, limit, existing) ==
    IF i > Len(content) THEN << >>
    ELSE SlideWarnings(content[i], i, limit, existing)
         \o ContentWarnings(content, i + 1, limit, existing)

\* spec["length_target"].get("bullets_per_slide_max", 6)
BulletLimit(mb) == IF mb = Absent THEN DefaultBulletsPerSlideMax ELSE mb[1]

ValidateWarnings(content, mb, existing) ==
    ContentWarnings(content, 1, BulletLimit(mb), existing)

----------------------------------------------------------------------------
(* Inputs *)

Alphabet == {"a", " ", ".", "!"}

CharTexts == UNION {[1..k -> Alphabet] : k \in 0..MaxChars}

Rep(c, n) == [i \in 1..n |-> c]

\* Two sentences, the second of six words; a sentence of exactly MaxBulletLen
\* characters; a longer one of two words.
Segs ==
    { <<"b", ".", " ", "c", " ", "d", " ", " ", "e", " ", "f", "\t", "g", " ", "h", "?", "!", "\n">>,
      Rep("z", MaxBulletLen) \o <<"!">>,
      <<"y", " ">> \o Rep("x", MaxBulletLen + LongExtra - 2) \o <<".">> }

RECURSIVE Flatten(_)
Flatten(ss) == IF ss = << >> THEN << >> ELSE Head(ss) \o Flatten(Tail(ss))

SegTexts == {Flatten(ss) : ss \in UNION {[1..k -> Segs] : k \in 0..MaxSegs}}

Texts == CharTexts \cup SegTexts

Languages == {"es", "en"}

SlidesCounts == (0 - NegSlides)..MaxSlidesCount

Counts == (0 - NegCount)..MaxCount

BulletLimits ==
    {Absent} \cup {Present(m) : m \in (DefaultBulletsPerSlideMax - LimitSpread)..
                                       (DefaultBulletsPerSlideMax + LimitSpread)}

----------------------------------------------------------------------------
(* The state machine: one processor, one text, one call and its validation *)

\* the components that take no part in a behaviour stay as constructed
ProcIdle ==
    /\ language = "es"
    /\ text = << >>
    /\ pc = "ready"
    /\ split_sentences = << >>
    /\ slides_count = 0
    /\ slides = << >>
    /\ raised = "none"
    /\ count = 0
    /\ ideas = << >>
    /\ max_bullets = Absent
    /\ is_valid = TRUE
    /\ warnings = << >>

ExpandIdle ==
    /\ description = << >>
    /\ target_words = 0
    /\ expanded = << >>

AudioIdle ==
    /\ audio_paths = << >>
    /\ transcript = << >>

BuildIdle ==
    /\ spec = << >>
    /\ slides_content = << >>
    /\ pptx = << >>
    /\ html = << >>

ConfigIdle ==
    /\ spec_valid = TRUE
    /\ errors = << >>
    /\ merged = << >>

BuilderIdle ==
    /\ builder = << >>
    /\ history = << >>

GuiIdle ==
    /\ brand_name_var = << >>
    /\ slides_count_var = <<"int", 10>>
    /\ description_textbox = << >>
    /\ image_paths = << >>
    /\ primary_color_var = <<"#", "1", "F", "2", "D", "3", "D">>
    /\ status_label = "Ready"
    /\ messagebox = "none"
    /\ result = Absent
    /\ platform = "win32"

\* every component but the ones named in busy is idle
IdleExcept(busy) ==
    /\ IF "proc" \in busy THEN TRUE ELSE ProcIdle
    /\ IF "files" \in busy THEN TRUE ELSE files = {}
    /\ IF "expand" \in busy THEN TRUE ELSE ExpandIdle
    /\ IF "audio" \in busy THEN TRUE ELSE AudioIdle
    /\ IF "build" \in busy THEN TRUE ELSE BuildIdle
    /\ IF "config" \in busy THEN TRUE ELSE ConfigIdle
    /\ IF "builder" \in busy THEN TRUE ELSE BuilderIdle
    /\ IF "gui" \in busy THEN TRUE ELSE GuiIdle

OtherIdle == IdleExcept({"proc"})

Init ==
    /\ language \in Languages
    /\ text \in Texts
    /\ pc = "ready"
    /\ split_sentences = << >>
    /\ slides_count = 0
    /\ slides = << >>
    /\ raised = "none"
    /\ count = 0
    /\ ideas = << >>
    /\ max_bullets = Absent
    /\ is_valid = TRUE
    /\ warnings = << >>
    /\ OtherIdle

SplitIntoSentencesCall ==
    /\ pc = "ready"
    /\ pc' = "split_into_sentences"
    /\ split_sentences' = SplitIntoSentences(text)
    /\ UNCHANGED <<language, text, slides_count, slides, raised, count, ideas,
                   max_bullets, is_valid, warnings>>
    /\ UNCHANGED otherVars

SummarizeAndOutline(sc) ==
    /\ pc = "ready"
    /\ pc' = "summarize_and_outline"
    /\ slides_count' = sc
    /\ IF OutlineRaises(text, sc)
       THEN raised' = "ZeroDivisionError" /\ slides' = slides
       ELSE raised' = "none" /\ slides' = OutlineSlides(language, text, sc)
    /\ UNCHANGED <<language, text, split_sentences, count, ideas, max_bullets, is_valid,
                   warnings>>
    /\ UNCHANGED otherVars

ExtractKeyIdeasCall(cnt) ==
    /\ pc = "ready"
    /\ pc' = "extract_key_ideas"
    /\ count' = cnt
    /\ ideas' = ExtractKeyIdeas(text, cnt)
    /\ UNCHANGED <<language, text, split_sentences, slides_count, slides, raised, max_bullets,
                   is_valid, warnings>>
    /\ UNCHANGED otherVars

ValidateContent(mb) ==
    /\ pc = "summarize_and_outline"
    /\ raised = "none"
    /\ pc' = "validate_content"
    /\ max_bullets' = mb
    /\ warnings' = ValidateWarnings(slides, mb, files)
    /\ is_valid' = (Len(ValidateWarnings(slides, mb, files)) = 0)
    /\ UNCHANGED <<language, text, split_sentences, slides_count, slides, raised, count,
                   ideas>>
    /\ UNCHANGED otherVars

Next ==
    \/ SplitIntoSentencesCall
    \/ \E sc \in SlidesCounts : SummarizeAndOutline(sc)
    \/ \E cnt \in Counts : ExtractKeyIdeasCall(cnt)
    \/ \E mb \in BulletLimits : ValidateContent(mb)

Spec == Init /\ [][Next]_vars

----------------------------------------------------------------------------
(* Properties of summarize_and_outline *)

\* summarize_and_outline was called and returned
Outlined ==
    /\ pc \in {"summarize_and_outline", "validate_content"}
    /\ raised = "none"

TheSentences == SplitIntoSentences(text)

\* the number of content slides asked for
CSlides == slides_count - 2

\* for n sentences and c >= 1 content slides: the size of a full window, and
\* the first position and the size of the window of slide k (counted from 1)
SpsOf(n, c) == IF n \div c > 3 THEN n \div c ELSE 3
WindowFirst(sps, k) == (k - 1) * sps + 1
WindowLen(n, sps, k) == Min(sps, n - (k - 1) * sps)

CeilDiv(a, b) == (a + b - 1) \div b

RECURSIVE AllBullets(_)
AllBullets(ss) ==
    IF ss = << >> THEN << >> ELSE Head(ss).bullets \o AllBullets(Tail(ss))

\* bullet b is sentence s, whole or cut short and marked with an ellipsis
IsBulletOf(b, s) ==
    \/ b = s
    \/ /\ Len(b) >= 3
       /\ Len(b) - 3 < Len(s)
       /\ SubSeq(b, Len(b) - 2, Len(b)) = <<".", ".", ".">>
       /\ SubSeq(b, 1, Len(b) - 3) = SubSeq(s, 1, Len(b) - 3)

\* bs can be read off ss from left to right, each position of ss used at most
\* once and positions strictly increasing (the leftmost match is enough)
RECURSIVE IsOrderedSelection(_, _)
IsOrderedSelection(bs, ss) ==
    IF bs = << >> THEN TRUE
    ELSE IF ss = << >> THEN FALSE
    ELSE IF IsBulletOf(Head(bs), Head(ss))
         THEN IsOrderedSelection(Tail(bs), Tail(ss))
         ELSE IsOrderedSelection(bs, Tail(ss))

\* C1: for slides_count >= 3 the returned list has between 0 and
\* slides_count - 2 slides.
C1_SlideCountBound ==
    (Outlined /\ slides_count >= 3) =>
        (Len(slides) >= 0 /\ Len(slides) <= slides_count - 2)

\* three content slides were asked for and three were returned
C1_Witness ==
    Outlined /\ slides_count = 5 /\ Len(slides) = 3

\* C2: the bullets, read in slide order and then bullet order, are (up to
\* truncation) a selection of the sentences of the text at strictly
\* increasing positions.
C2_NoReorderNoDuplicate ==
    Outlined => IsOrderedSelection(AllBullets(slides), TheSentences)

\* two slides whose bullets are four different sentences, one of them cut
C2_Witness ==
    /\ Outlined
    /\ Len(slides) >= 2
    /\ LET bs == AllBullets(slides)
           ss == TheSentences
       IN  /\ Cardinality({bs[i] : i \in 1..Len(bs)}) >= 4
           /\ \E i \in 1..Len(bs) : bs[i] \notin {ss[j] : j \in 1..Len(ss)}

\* C3: every bullet has at most 120 characters; it is its sentence unchanged
\* when the sentence has at most 120 characters, and otherwise the first 117
\* characters of the sentence followed by the ellipsis.
C3_BulletLength ==
    (Outlined /\ slides_count >= 3) =>
        LET ss == TheSentences
            sps == SpsOf(Len(ss), CSlides)
        IN  \A k \in 1..Len(slides) : \A j \in 1..Len(slides[k].bullets) :
                LET b == slides[k].bullets[j]
                    s == ss[WindowFirst(sps, k) + j - 1]
                IN  /\ Len(b) <= 120
                    /\ Len(s) <= 120 => b = s
                    /\ Len(s) > 120 => b = SubSeq(s, 1, 117) \o <<".", ".", ".">>

\* a slide with a sentence of exactly 120 characters kept whole and a longer
\* one cut to 120
C3_Witness ==
    /\ Outlined /\ slides_count >= 3
    /\ LET ss == TheSentences
           sps == SpsOf(Len(ss), CSlides)
       IN  \E k \in 1..Len(slides) :
             /\ \E j \in 1..Len(slides[k].bullets) :
                    /\ Len(ss[WindowFirst(sps, k) + j - 1]) = 120
                    /\ slides[k].bullets[j] = ss[WindowFirst(sps, k) + j - 1]
             /\ \E j \in 1..Len(slides[k].bullets) :
                    /\ Len(ss[WindowFirst(sps, k) + j - 1]) > 120
                    /\ Len(slides[k].bullets[j]) = 120

\* C4: with c = slides_count - 2 >= 1 content slides, n sentences and
\* sps = max(3, n div c), exactly min(c, ceil(n / sps)) slides are returned,
\* none of them a placeholder for an empty window.
C4_EarlyStopNoPadding ==
    (Outlined /\ CSlides >= 1) =>
        LET n == Len(TheSentences)
        IN  /\ Len(slides) = Min(CSlides, CeilDiv(n, SpsOf(n, CSlides)))
            /\ \A k \in 1..Len(slides) : slides[k].bullets # << >>

\* six sentences and slides_count = 5 give two slides, not three
C4_Witness ==
    Outlined /\ slides_count = 5 /\ Len(TheSentences) = 6 /\ Len(slides) = 2

\* C5: every slide has between 1 and 6 bullets, as many as
\* min(6, sentences in its window).
C5_BulletCount ==
    (Outlined /\ slides_count >= 3) =>
        LET n == Len(TheSentences)
            sps == SpsOf(n, CSlides)
        IN  \A k \in 1..Len(slides) :
                /\ Len(slides[k].bullets) >= 1
                /\ Len(slides[k].bullets) <= 6
                /\ Len(slides[k].bullets) = Min(6, WindowLen(n, sps, k))

\* a slide whose window holds more than six sentences
C5_Witness ==
    /\ Outlined /\ slides_count >= 3
    /\ LET n == Len(TheSentences)
           sps == SpsOf(n, CSlides)
       IN  \E k \in 1..Len(slides) :
               WindowLen(n, sps, k) > 6 /\ Len(slides[k].bullets) = 6

\* C6 as stated: a window of k sentences yields k bullets for any k.
C6_NoCapAtGeneration ==
    (Outlined /\ slides_count >= 3) =>
        LET n == Len(TheSentences)
            sps == SpsOf(n, CSlides)
        IN  \A k \in 1..Len(slides) :
                Len(slides[k].bullets) = WindowLen(n, sps, k)

\* validate_content reported too many bullets on slide k
HasBulletsWarning(k) ==
    \E w \in 1..Len(warnings) : warnings[w].kind = "bullets" /\ warnings[w].slide = k

\* C6, amended: generation caps the bullets of a slide at 6 (a window of k
\* sentences yields its first min(k, 6) sentences as bullets), so
\* validate_content reports an excess on a generated slide exactly when the
\* limit is below the slide's min(k, 6) bullets, never for a limit of 6 or more.
C6_CapAtGeneration ==
    (pc = "validate_content" /\ slides_count >= 3) =>
        LET ss == TheSentences
            n == Len(ss)
            sps == SpsOf(n, CSlides)
        IN  \A k \in 1..Len(slides) :
                /\ \A j \in 1..WindowLen(n, sps, k) :
                       j <= 6 <=> (/\ j <= Len(slides[k].bullets)
                                   /\ IsBulletOf(slides[k].bullets[j],
                                                 ss[WindowFirst(sps, k) + j - 1]))
                /\ HasBulletsWarning(k) <=>
                       Min(WindowLen(n, sps, k), 6) > BulletLimit(max_bullets)
                /\ BulletLimit(max_bullets) >= 6 => ~HasBulletsWarning(k)

\* a window of more than six sentences validated against a limit of 6: no warning
C6_Witness ==
    /\ pc = "validate_content" /\ slides_count >= 3
    /\ max_bullets = Present(6)
    /\ LET n == Len(TheSentences)
       IN  \E k \in 1..Len(slides) : WindowLen(n, SpsOf(n, CSlides), k) > 6
    /\ warnings = << >> /\ is_valid

\* C7: for slides_count >= 3 the call returns a list and raises nothing,
\* whatever the text.
C7_NoFailureOnText ==
    (pc = "summarize_and_outline" /\ slides_count >= 3) =>
        (raised = "none" /\ Len(slides) \in 0..(slides_count - 2))

\* the call returned for a text of punctuation and whitespace only
C7_Witness ==
    /\ pc = "summarize_and_outline" /\ slides_count = 3
    /\ text = <<".", " ", "!">>
    /\ raised = "none" /\ slides = << >>

\* C8: for the empty text and any slides_count the call returns the empty
\* list without error.
C8_EmptyTextAnySlidesCount ==
    (pc = "summarize_and_outline" /\ text = << >>) =>
        (raised = "none" /\ slides = << >>)

----------------------------------------------------------------------------
(* Properties of _split_into_sentences and extract_key_ideas *)

IsTermChar(c) == c \in {".", "!", "?"}
IsBlankChar(c) == c \in {" ", "\t", "\n"}

\* A segment of t is a maximal interval a..b of characters that are not
\* terminators: it lies between two maximal runs of terminators, or between
\* such a run and an end of the text.
SegStarts(t) ==
    {a \in 1..Len(t) : ~IsTermChar(t[a]) /\ (a = 1 \/ IsTermChar(t[a - 1]))}

SegEnd(t, a) ==
    CHOOSE b \in a..Len(t) :
        /\ b = Len(t) \/ IsTermChar(t[b + 1])
        /\ \A m \in a..b : ~IsTermChar(t[m])

HasSolid(t, a, b) == \E i \in a..b : ~IsBlankChar(t[i])

\* the segment a..b without its leading and trailing whitespace
Trimmed(t, a, b) ==
    LET lo == CHOOSE i \in a..b :
                  ~IsBlankChar(t[i]) /\ \A m \in a..(i - 1) : IsBlankChar(t[m])
        hi == CHOOSE i \in a..b :
                  ~IsBlankChar(t[i]) /\ \A m \in (i + 1)..b : IsBlankChar(t[m])
    IN  SubSeq(t, lo, hi)

SolidSegStarts(t) == {a \in SegStarts(t) : HasSolid(t, a, SegEnd(t, a))}

NthSmallest(S, k) == CHOOSE a \in S : Cardinality({x \in S : x < a}) = k - 1

\* the non-empty trimmed segments of t in source order
TrimmedSegments(t) ==
    LET S == SolidSegStarts(t)
    IN  [k \in 1..Cardinality(S) |->
            Trimmed(t, NthSmallest(S, k), SegEnd(t, NthSmallest(S, k)))]

\* C9: _split_into_sentences returns, in source order, exactly the non-empty
\* trimmed segments between maximal runs of terminators: no sentence is empty,
\* starts or ends with whitespace or holds a terminator, and a text without
\* terminator that is not blank yields its trimmed self as the one sentence.
C9_SplitIntoSentences ==
    pc = "split_into_sentences" =>
        /\ split_sentences = TrimmedSegments(text)
        /\ \A k \in 1..Len(split_sentences) :
               LET s == split_sentences[k]
               IN  /\ s # << >>
                   /\ ~IsBlankChar(s[1]) /\ ~IsBlankChar(s[Len(s)])
                   /\ \A i \in 1..Len(s) : ~IsTermChar(s[i])
        /\ ((\A i \in 1..Len(text) : ~IsTermChar(text[i])) /\ HasSolid(text, 1, Len(text)))
               => split_sentences = <<Trimmed(text, 1, Len(text))>>

\* two sentences from a text with two consecutive terminators, whitespace
\* after a terminator and whitespace at its end
C9_Witness ==
    /\ pc = "split_into_sentences"
    /\ Len(split_sentences) = 2
    /\ \E i \in 1..(Len(text) - 1) : IsTermChar(text[i]) /\ IsTermChar(text[i + 1])
    /\ \E i \in 1..(Len(text) - 1) : IsTermChar(text[i]) /\ IsBlankChar(text[i + 1])
    /\ IsBlankChar(text[Len(text)])

IsPrefix(p, q) == Len(p) <= Len(q) /\ p = SubSeq(q, 1, Len(p))

\* C10 as stated: for every integer count, exactly min(count, number of
\* sentences) items, a prefix of the sentences.
C10_KeyIdeasAnyCount ==
    pc = "extract_key_ideas" =>
        /\ Len(ideas) = Min(count, Len(TheSentences))
        /\ IsPrefix(ideas, TheSentences)

\* C10, amended: the result is always a prefix of the sentences; it has
\* min(count, n) items for count >= 0 and max(0, n + count) items for a
\* negative count.
C10_KeyIdeasPrefix ==
    pc = "extract_key_ideas" =>
        /\ IsPrefix(ideas, TheSentences)
        /\ count >= 0 => Len(ideas) = Min(count, Len(TheSentences))
        /\ count < 0 => Len(ideas) = Max(0, Len(TheSentences) + count)

\* fewer ideas asked for than there are sentences, and more than one
C10_Witness ==
    /\ pc = "extract_key_ideas"
    /\ count = 2 /\ Len(TheSentences) > 2
    /\ Len(ideas) = 2

----------------------------------------------------------------------------
(* validate_content on slides of any origin                                *)
(*                                                                         *)
(* validate_content accepts any list of slide dictionaries, not only the   *)
(* ones summarize_and_outline builds.  Here the list is an input, with     *)
(* slides around the bullet limit, bullets around the 150 character mark   *)
(* and image paths that exist, are missing, are empty or are None.         *)

MaxValSlides == 2

ShortBullet == <<"s">>

\* a slide dictionary with the four keys summarize_and_outline and
\* build_presentation give it
ValSlide(bullets, image_path) ==
    [title |-> <<"T">>, bullets |-> bullets, image_path |-> image_path, alt |-> << >>]

ValSlideKinds ==
    { ValSlide(<< >>, None),
      ValSlide(Rep(ShortBullet, DefaultBulletsPerSlideMax), None),
      ValSlide(Rep(ShortBullet, DefaultBulletsPerSlideMax + 1), None),
      ValSlide(Rep(ShortBullet, DefaultBulletsPerSlideMax + 1), <<"a">>),
      ValSlide(<<Rep("x", LongBulletLimit), Rep("x", LongBulletLimit + 1), ShortBullet,
                 Rep("y", LongBulletLimit + 1)>>, None),
      ValSlide(<<ShortBullet>>, << >>),
      ValSlide(<<ShortBullet>>, <<"a">>),
      ValSlide(Rep(Rep("x", LongBulletLimit + 1), DefaultBulletsPerSlideMax + 1), <<"b">>) }

ValSlideLists == UNION {[1..k -> ValSlideKinds] : k \in 0..MaxValSlides}

ImageFiles == { <<"a">> }

InitValidate ==
    /\ language \in Languages
    /\ text = << >>
    /\ pc = "ready"
    /\ split_sentences = << >>
    /\ slides_count = 0
    /\ slides \in ValSlideLists
    /\ raised = "none"
    /\ count = 0
    /\ ideas = << >>
    /\ max_bullets = Absent
    /\ is_valid = TRUE
    /\ warnings = << >>
    /\ files \in SUBSET ImageFiles
    /\ IdleExcept({"proc", "files"})

\* validate_content(slides, spec)
ValidateSlides(mb) ==
    /\ pc = "ready"
    /\ pc' = "validate_content"
    /\ max_bullets' = mb
    /\ warnings' = ValidateWarnings(slides, mb, files)
    /\ is_valid' = (Len(ValidateWarnings(slides, mb, files)) = 0)
    /\ UNCHANGED <<language, text, split_sentences, slides_count, slides, raised, count,
                   ideas>>
    /\ UNCHANGED otherVars

NextValidate == \E mb \in BulletLimits : ValidateSlides(mb)

SpecValidate == InitValidate /\ [][NextValidate]_vars

\* the positions of the warnings of one kind about slide i
WarningsAbout(kind, i) ==
    {w \in 1..Len(warnings) : warnings[w].kind = kind /\ warnings[w].slide = i}

LongBulletsOf(i) ==
    {j \in 1..Len(slides[i].bullets) : Len(slides[i].bullets[j]) > 150}

MissingImage(i) ==
    /\ slides[i].image_path \notin {None, << >>}
    /\ slides[i].image_path \notin files

TheLimit == IF max_bullets = Absent THEN 6 ELSE max_bullets[1]

\* C11: validate_content reports valid exactly when it returns no warning;
\* about each slide it returns one warning when the slide has more bullets
\* than the limit (naming both numbers), one for each bullet of more than
\* 150 characters, one when the slide names an image that does not exist,
\* and nothing else; the warnings come in slide order.
C11_ValidateContent ==
    pc = "validate_content" =>
        /\ is_valid = (warnings = << >>)
        /\ \A w \in 1..Len(warnings) :
               /\ warnings[w].slide \in 1..Len(slides)
               /\ warnings[w].kind \in {"bullets", "long_bullet", "image"}
               /\ w > 1 => warnings[w - 1].slide <= warnings[w].slide
        /\ \A i \in 1..Len(slides) :
               /\ Cardinality(WarningsAbout("bullets", i)) =
                      (IF Len(slides[i].bullets) > TheLimit THEN 1 ELSE 0)
               /\ \A w \in WarningsAbout("bullets", i) :
                      /\ warnings[w].bullets = Len(slides[i].bullets)
                      /\ warnings[w].max = TheLimit
               /\ Cardinality(WarningsAbout("long_bullet", i)) =
                      Cardinality(LongBulletsOf(i))
               /\ \A j \in LongBulletsOf(i) :
                      \E w \in WarningsAbout("long_bullet", i) : warnings[w].bullet = j
               /\ Cardinality(WarningsAbout("image", i)) =
                      (IF MissingImage(i) THEN 1 ELSE 0)

\* one slide of seven short bullets and no image, limit 6: one warning
C11_Witness ==
    /\ pc = "validate_content"
    /\ Len(slides) = 1
    /\ Len(slides[1].bullets) = 7
    /\ LongBulletsOf(1) = {}
    /\ slides[1].image_path = None
    /\ TheLimit = 6
    /\ Len(warnings) = 1
    /\ warnings[1].kind = "bullets"
    /\ warnings[1].bullets = 7
    /\ warnings[1].max = 6
    /\ ~is_valid

----------------------------------------------------------------------------
(* research_and_expand *)

MaxDescChars == 4
MaxTargetWords == 5
NegTargetWords == 1

\* a variant that repeats the description once less
RepetitionsNoExtra(words_needed, current_words) ==
    FloorDiv(words_needed, current_words)

\* repetitions = (words_needed // current_words) + 1
Repetitions(words_needed, current_words) ==
    FloorDiv(words_needed, current_words) + 1

\* s * n for a string s; the empty string when n <= 0
RECURSIVE StrTimes(_, _)
StrTimes(s, n) == IF n <= 0 THEN << >> ELSE s \o StrTimes(s, n - 1)

\* a variant that also fails for a description of one word
ExpandRaisesBelowTwo(d) == Len(SplitWords(d, 1)) <= 1

ExpandRaises(d) == Len(SplitWords(d, 1)) = 0

ResearchAndExpand(d, tw) ==
    LET words_needed == tw
        current_words == Len(SplitWords(d, 1))
        repetitions == Repetitions(words_needed, current_words)
        expanded_text == StrTimes(d \o <<" ">>, repetitions)
    IN  JoinSpace(PySlice(SplitWords(expanded_text, 1), 0, tw))

DescAlphabet == {"a", "b", " "}

Descriptions == UNION {[1..k -> DescAlphabet] : k \in 0..MaxDescChars}

TargetWords == (0 - NegTargetWords)..MaxTargetWords

InitExpand ==
    /\ description \in Descriptions
    /\ target_words = 0
    /\ expanded = << >>
    /\ language \in Languages
    /\ text = << >>
    /\ pc = "ready"
    /\ split_sentences = << >>
    /\ slides_count = 0
    /\ slides = << >>
    /\ raised = "none"
    /\ count = 0
    /\ ideas = << >>
    /\ max_bullets = Absent
    /\ is_valid = TRUE
    /\ warnings = << >>
    /\ IdleExcept({"proc", "expand"})

\* research_and_expand(description, target_words)
ResearchAndExpandCall(tw) ==
    /\ pc = "ready"
    /\ pc' = "research_and_expand"
    /\ target_words' = tw
    /\ IF ExpandRaises(description)
       THEN raised' = "ZeroDivisionError" /\ expanded' = expanded
       ELSE raised' = "none" /\ expanded' = ResearchAndExpand(description, tw)
    /\ UNCHANGED <<language, text, split_sentences, slides_count, slides, count, ideas,
                   max_bullets, is_valid, warnings, files, description>>
    /\ UNCHANGED <<audioVars, buildVars, configVars, builderVars, guiVars>>

NextExpand == \E tw \in TargetWords : ResearchAndExpandCall(tw)

SpecExpand == InitExpand /\ [][NextExpand]_vars

\* the whitespace-separated words of the description
DescWords == SplitWords(description, 1)

\* C12: for a description of k >= 1 words and target_words >= 0 the result
\* is target_words words joined by single spaces, the i-th of them (from 0)
\* being word i mod k of the description.
C12_ExpandCycles ==
    (pc = "research_and_expand" /\ Len(DescWords) >= 1 /\ target_words >= 0) =>
        LET dw == DescWords
            k == Len(dw)
        IN  /\ raised = "none"
            /\ expanded = JoinSpace([i \in 1..target_words |-> dw[((i - 1) % k) + 1]])
            /\ Len(SplitWords(expanded, 1)) = target_words

\* two different words repeated to five
C12_Witness ==
    /\ pc = "research_and_expand"
    /\ DescWords = << <<"a">>, <<"b">> >>
    /\ target_words = 5
    /\ expanded = <<"a", " ", "b", " ", "a", " ", "b", " ", "a">>

----------------------------------------------------------------------------
(* transcribe_audio *)
(*                                                                         *)
(* A path is a string; files holds the paths for which os.path.exists is   *)
(* true.                                                                   *)

MaxAudioPaths == 3

\* the position of the last "/" of p, 0 when there is none
LastSlash(p) ==
    IF \E i \in 1..Len(p) : p[i] = "/"
    THEN CHOOSE i \in 1..Len(p) : p[i] = "/" /\ \A j \in (i + 1)..Len(p) : p[j] # "/"
    ELSE 0

\* a variant that names the whole path
BasenameWholePath(p) == p

\* os.path.basename(p)
Basename(p) == SubSeq(p, LastSlash(p) + 1, Len(p))

\* f"[Transcribed text from {name}]"
Placeholder(name) ==
    <<"[", "T", "r", "a", "n", "s", "c", "r", "i", "b", "e", "d", " ", "t", "e", "x", "t",
      " ", "f", "r", "o", "m", " ">> \o name \o <<"]">>

\* the list transcripts after the loop over paths[i..]
RECURSIVE Transcripts(_, _, _)
Transcripts(paths, existing, i) ==
    IF i > Len(paths) THEN << >>
    ELSE IF paths[i] \notin existing THEN Transcripts(paths, existing, i + 1)
    ELSE <<Placeholder(Basename(paths[i]))>> \o Transcripts(paths, existing, i + 1)

\* "\n\n".join(parts)
RECURSIVE JoinBlankLine(_)
JoinBlankLine(parts) ==
    IF parts = << >> THEN << >>
    ELSE IF Len(parts) = 1 THEN parts[1]
    ELSE parts[1] \o <<"\n", "\n">> \o JoinBlankLine(Tail(parts))

TranscribeAudio(paths, existing) == JoinBlankLine(Transcripts(paths, existing, 1))

AudioFiles == { <<"d", "/", "a">>, <<"b">>, <<"e", "/", "f", "/", "g">> }

AudioPathLists == UNION {[1..k -> AudioFiles] : k \in 0..MaxAudioPaths}

InitTranscribe ==
    /\ audio_paths \in AudioPathLists
    /\ transcript = << >>
    /\ files \in SUBSET AudioFiles
    /\ language \in Languages
    /\ text = << >>
    /\ pc = "ready"
    /\ split_sentences = << >>
    /\ slides_count = 0
    /\ slides = << >>
    /\ raised = "none"
    /\ count = 0
    /\ ideas = << >>
    /\ max_bullets = Absent
    /\ is_valid = TRUE
    /\ warnings = << >>
    /\ IdleExcept({"proc", "files", "audio"})

\* transcribe_audio(audio_paths)
TranscribeAudioCall ==
    /\ pc = "ready"
    /\ pc' = "transcribe_audio"
    /\ transcript' = TranscribeAudio(audio_paths, files)
    /\ UNCHANGED <<language, text, split_sentences, slides_count, slides, raised, count,
                   ideas, max_bullets, is_valid, warnings, files, audio_paths>>
    /\ UNCHANGED <<expandVars, buildVars, configVars, builderVars, guiVars>>

NextTranscribe == TranscribeAudioCall

SpecTranscribe == InitTranscribe /\ [][NextTranscribe]_vars

\* b is the part of p after its last "/" (all of p when it has none)
IsBaseNameOf(b, p) ==
    /\ Len(b) <= Len(p)
    /\ b = SubSeq(p, Len(p) - Len(b) + 1, Len(p))
    /\ \A i \in 1..Len(b) : b[i] # "/"
    /\ Len(b) < Len(p) => p[Len(p) - Len(b)] = "/"

\* the paths of the call that exist, in the order of the call
ExistingAudio == SelectSeq(audio_paths, LAMBDA p : p \in files)

\* t is the placeholders of paths[i..] with a blank line between them
RECURSIVE IsTranscriptOf(_, _, _)
IsTranscriptOf(t, paths, i) ==
    IF i > Len(paths) THEN t = << >>
    ELSE \E b \in {SubSeq(paths[i], j, Len(paths[i])) : j \in 1..(Len(paths[i]) + 1)} :
            /\ IsBaseNameOf(b, paths[i])
            /\ LET ph == <<"[">> \o <<"T", "r", "a", "n", "s", "c", "r", "i", "b", "e", "d">>
                         \o <<" ">> \o <<"t", "e", "x", "t">> \o <<" ">>
                         \o <<"f", "r", "o", "m">> \o <<" ">> \o b \o <<"]">>
                   sep == IF i < Len(paths) THEN <<"\n", "\n">> ELSE << >>
                   n == Len(ph) + Len(sep)
               IN  /\ Len(t) >= n
                   /\ SubSeq(t, 1, n) = ph \o sep
                   /\ IsTranscriptOf(SubSeq(t, n + 1, Len(t)), paths, i + 1)

\* C13: transcribe_audio returns one placeholder naming the base name for
\* each path that exists, in the order of the list, with a blank line
\* between two placeholders; missing paths add nothing, and when no path
\* exists the result is the empty string.
C13_TranscribeAudio ==
    pc = "transcribe_audio" =>
        /\ IsTranscriptOf(transcript, ExistingAudio, 1)
        /\ ExistingAudio = << >> => transcript = << >>

\* a missing path between two existing ones
C13_Witness ==
    /\ pc = "transcribe_audio"
    /\ Len(audio_paths) = 3
    /\ audio_paths[1] = <<"d", "/", "a">> /\ audio_paths[1] \in files
    /\ audio_paths[2] \notin files
    /\ audio_paths[3] = <<"b">> /\ audio_paths[3] \in files
    /\ transcript = Placeholder(<<"a">>) \o <<"\n", "\n">> \o Placeholder(<<"b">>)

----------------------------------------------------------------------------
(* Python values of a specification dictionary                             *)
(*                                                                         *)
(* A value read from a spec carries its type, as isinstance sees it: a     *)
(* pair of the type's name and the value.  A dict is a function from its   *)
(* keys; a key that is absent is outside its domain.                       *)

PyStr(s) == <<"str", s>>
PyInt(n) == <<"int", n>>
PyBool(b) == <<"bool", b>>
PyList(l) == <<"list", l>>
PyDict(f) == <<"dict", f>>

EmptyDict == [k \in {} |-> k]

Val(v) == v[2]

IsDict(v) == v[1] = "dict"

\* k in d, d[k], d.get(k, default) and d[k] = v for a dict d
Has(d, k) == k \in DOMAIN d[2]
Item(d, k) == d[2][k]
Get(d, k, default) == IF Has(d, k) THEN Item(d, k) ELSE default
DictSet(d, k, v) == PyDict([x \in DOMAIN d[2] \cup {k} |-> IF x = k THEN v ELSE d[2][x]])

\* bool(v)
Truthy(v) ==
    CASE v[1] = "str" -> v[2] # << >>
      [] v[1] = "int" -> v[2] # 0
      [] v[1] = "bool" -> v[2]
      [] v[1] = "list" -> v[2] # << >>
      [] v[1] = "dict" -> DOMAIN v[2] # {}
      [] OTHER -> FALSE

----------------------------------------------------------------------------
(* The two renderers (src/pptx_generator.py, src/html_generator.py)        *)
(*                                                                         *)
(* A rendered deck is the sequence of its slides; of a slide the model     *)
(* keeps the texts it shows: title, subtitle, bullets, footer, and the     *)
(* image it shows (None when it shows none).                               *)

\* get_text(key, language) for the keys of the conclusion slide
GetText(key, lang) ==
    IF lang = "en"
    THEN CASE key = "conclusions" ->
                <<"C", "o", "n", "c", "l", "u", "s", "i", "o", "n", "s", " ",
                "a", "n", "d", " ", "N", "e", "x", "t", " ", "S", "t", "e", "p",
                "s">>
           [] key = "summary_learnings" ->
                <<"S", "u", "m", "m", "a", "r", "y", " ", "o", "f", " ", "l",
                "e", "a", "r", "n", "i", "n", "g", "s">>
           [] key = "immediate_actions" ->
                <<"I", "m", "m", "e", "d", "i", "a", "t", "e", " ", "a", "c",
                "t", "i", "o", "n", "s">>
           [] key = "responsible_deadlines" ->
                <<"R", "e", "s", "p", "o", "n", "s", "i", "b", "i", "l", "i",
                "t", "i", "e", "s", " ", "a", "n", "d", " ", "d", "e", "a", "d",
                "l", "i", "n", "e", "s">>
    ELSE CASE key = "conclusions" ->
                <<"C", "o", "n", "c", "l", "u", "s", "i", "o", "n", "e", "s",
                " ", "y", " ", "p", "r", "o_acute", "x", "i", "m", "o", "s", " ",
                "p", "a", "s", "o", "s">>
           [] key = "summary_learnings" ->
                <<"R", "e", "s", "u", "m", "e", "n", " ", "d", "e", " ", "a",
                "p", "r", "e", "n", "d", "i", "z", "a", "j", "e", "s">>
           [] key = "immediate_actions" ->
                <<"A", "c", "c", "i", "o", "n", "e", "s", " ", "i", "n", "m",
                "e", "d", "i", "a", "t", "a", "s">>
           [] key = "responsible_deadlines" ->
                <<"R", "e", "s", "p", "o", "n", "s", "a", "b", "l", "e", "s",
                " ", "y", " ", "p", "l", "a", "z", "o", "s">>

ConclusionBullets(lang) ==
    <<GetText("summary_learnings", lang), GetText("immediate_actions", lang),
      GetText("responsible_deadlines", lang)>>

SubtitleLimit == 150

\* desc[:150] + "..." if len(desc) > 150 else desc, "" without a description
Subtitle(spec_) ==
    LET desc == Get(Get(spec_, "input", PyDict(EmptyDict)), "description", PyStr(<< >>))
    IN  IF ~Truthy(desc) THEN << >>
        ELSE IF Len(Val(desc)) > SubtitleLimit
        THEN PySlice(Val(desc), 0, SubtitleLimit) \o Ellipsis
        ELSE Val(desc)

\* user.get("brand_name", user.get("name", "Presentation"))
BrandName(user) ==
    Val(Get(user, "brand_name",
            Get(user, "name",
                PyStr(<<"P", "r", "e", "s", "e", "n", "t", "a", "t", "i", "o", "n">>))))

ShowNumbers(footer) == Truthy(Get(footer, "show_slide_numbers", PyBool(TRUE)))

\* add_footer: f"{footer_text}  |  {current}/{total}" if show_numbers else footer_text
AddFooter(footer_text, show_numbers, current, total) ==
    IF show_numbers
    THEN footer_text \o <<" ", " ", "|", " ", " ">> \o ToStr(current) \o <<"/">> \o ToStr(total)
    ELSE footer_text

\* the footer of the template: {{ footer_text }} {% if show_numbers %}| k/{{ total }}{% endif %}
HtmlFooter(footer_text, show_numbers, current, total) ==
    footer_text \o <<" ">>
    \o (IF show_numbers THEN <<"|", " ">> \o ToStr(current) \o <<"/">> \o ToStr(total)
        ELSE << >>)

\* a variant of add_bullets that shows every bullet
AddBulletsAll(bullets, max_bullets_) == bullets

\* add_bullets: the paragraphs it writes
AddBullets(bullets, max_bullets_) == PySlice(bullets, 0, max_bullets_)

RenderedSlide(title, subtitle, bullets, image, footer) ==
    [title |-> title, subtitle |-> subtitle, bullets |-> bullets, image |-> image,
     footer |-> footer]

HexChars ==
    {"0", "1", "2", "3", "4", "5", "6", "7", "8", "9",
     "a", "b", "c", "d", "e", "f", "A", "B", "C", "D", "E", "F"}

\* hexstr.lstrip('#')
LStripHash(hexstr) ==
    IF \E k \in 1..Len(hexstr) : hexstr[k] # "#"
    THEN SubSeq(hexstr,
                CHOOSE k \in 1..Len(hexstr) :
                    hexstr[k] # "#" /\ \A m \in 1..(k - 1) : hexstr[m] = "#",
                Len(hexstr))
    ELSE << >>

\* rgb(hexstr) raises ValueError: int(part, 16) fails on one of the slices
\* [0:2], [2:4], [4:6], which it does on an empty slice and on a character
\* that is no hexadecimal digit (the signs, blanks and underscores int()
\* tolerates are not among the characters of the colours used here)
RgbRaises(hexstr) ==
    LET h == LStripHash(hexstr)
    IN  \E k \in {0, 2, 4} :
            LET part == PySlice(h, k, k + 2)
            IN  part = << >> \/ \E i \in 1..Len(part) : part[i] \notin HexChars

\* the exception generate_pptx raises before it saves, or "none": the keys
\* read without a default and the colours handed to rgb, in the order of
\* lines 133-157
PptxRaised(spec_) ==
    IF \E k \in {"slides_count", "theme", "footer", "user", "length_target"} : ~Has(spec_, k)
    THEN "KeyError"
    ELSE LET theme == Item(spec_, "theme")
         IN  IF ~Has(theme, "primary_color") THEN "KeyError"
             ELSE IF RgbRaises(Val(Item(theme, "primary_color"))) THEN "ValueError"
             ELSE IF /\ Truthy(Get(Get(spec_, "input", PyDict(EmptyDict)), "description",
                                   PyStr(<< >>)))
                     /\ RgbRaises(Val(Get(theme, "accent_color", Item(theme, "primary_color"))))
             THEN "ValueError"
             ELSE IF ~Has(Item(spec_, "footer"), "text") THEN "KeyError"
             ELSE "none"

\* what generate_html reads without a default

HtmlKeyError(spec_) ==
    \/ \E k \in {"slides_count", "theme", "footer", "user"} : ~Has(spec_, k)
    \/ ~Has(Item(spec_, "theme"), "primary_color")
    \/ ~Has(Item(spec_, "footer"), "text")

\* the image generate_pptx puts on a content slide: add_image draws the
\* picture when the file exists
PptxImage(sc, existing) ==
    IF sc.image_path # None /\ sc.image_path # << >> /\ sc.image_path \in existing
    THEN sc.image_path ELSE None

\* the image of a content slide of the template
HtmlImage(sc) ==
    IF sc.image_path # None /\ sc.image_path # << >> THEN sc.image_path ELSE None

\* generate_pptx: cover, one slide per element of slides_content, conclusion
GeneratePptx(spec_, content, lang, existing) ==
    LET total == Val(Item(spec_, "slides_count"))
        footer == Item(spec_, "footer")
        user == Item(spec_, "user")
        max_bullets_ == Val(Get(Item(spec_, "length_target"), "bullets_per_slide_max",
                               PyInt(DefaultBulletsPerSlideMax)))
        footer_text == Val(Item(footer, "text"))
    IN  <<RenderedSlide(BrandName(user), Subtitle(spec_), << >>, None,
                        AddFooter(footer_text, ShowNumbers(footer), 1, total))>>
        \o [i \in 1..Len(content) |->
               RenderedSlide(content[i].title, << >>,
                             AddBullets(content[i].bullets, max_bullets_),
                             PptxImage(content[i], existing),
                             AddFooter(footer_text, ShowNumbers(footer), i + 1, total))]
        \o <<RenderedSlide(GetText("conclusions", lang), << >>,
                           AddBullets(ConclusionBullets(lang), max_bullets_), None,
                           AddFooter(footer_text, ShowNumbers(footer), total, total))>>

\* generate_html: the slides of the rendered template
GenerateHtml(spec_, content, lang) ==
    LET total == Val(Item(spec_, "slides_count"))
        footer == Item(spec_, "footer")
        user == Item(spec_, "user")
        footer_text == Val(Item(footer, "text"))
    IN  <<RenderedSlide(BrandName(user), Subtitle(spec_), << >>, None,
                        HtmlFooter(footer_text, ShowNumbers(footer), 1, total))>>
        \o [i \in 1..Len(content) |->
               RenderedSlide(content[i].title, << >>, content[i].bullets,
                             HtmlImage(content[i]),
                             HtmlFooter(footer_text, ShowNumbers(footer), i + 1, total))]
        \o <<RenderedSlide(GetText("conclusions", lang), << >>, ConclusionBullets(lang),
                           None, HtmlFooter(footer_text, ShowNumbers(footer), total, total))>>

----------------------------------------------------------------------------
(* build_presentation (src/main.py)                                        *)
(*                                                                         *)
(* The orchestrator runs in five steps: it chooses the text, outlines it,  *)
(* attaches the images, saves the deck and saves the page.  A step that    *)
(* raises ends the call.                                                   *)

PyNone == <<"NoneType", << >> >>

StrList(l) == [i \in 1..Len(l) |-> Val(l[i])]

\* lines 28-36: the exception the choice of the text raises, or "none"
BuildTextRaised(spec_) ==
    IF ~Has(spec_, "input") THEN "KeyError"
    ELSE LET input_data == Item(spec_, "input")
         IN  IF Truthy(Get(input_data, "audio_paths", PyNone)) THEN "none"
             ELSE IF ~Truthy(Get(spec_, "enable_research", PyBool(FALSE))) THEN "none"
             ELSE IF ~Has(spec_, "length_target") THEN "KeyError"
             ELSE IF ~Has(Item(spec_, "length_target"), "summary_words") THEN "KeyError"
             ELSE IF ExpandRaises(Val(Get(input_data, "description", PyStr(<< >>))))
             THEN "ZeroDivisionError"
             ELSE "none"

\* a variant that prefers a description to the audio
BuildTextDescriptionFirst(spec_, existing) ==
    LET input_data == Item(spec_, "input")
        d == Val(Get(input_data, "description", PyStr(<< >>)))
    IN  IF d = << >> /\ Truthy(Get(input_data, "audio_paths", PyNone))
        THEN TranscribeAudio(StrList(Val(Item(input_data, "audio_paths"))), existing)
        ELSE IF Truthy(Get(spec_, "enable_research", PyBool(FALSE)))
             THEN ResearchAndExpand(d, Val(Item(Item(spec_, "length_target"),
                                                "summary_words")))
             ELSE d

\* lines 28-36: the text
BuildText(spec_, existing) ==
    LET input_data == Item(spec_, "input")
    IN  IF Truthy(Get(input_data, "audio_paths", PyNone))
        THEN TranscribeAudio(StrList(Val(Item(input_data, "audio_paths"))), existing)
        ELSE LET d == Val(Get(input_data, "description", PyStr(<< >>)))
             IN  IF Truthy(Get(spec_, "enable_research", PyBool(FALSE)))
                 THEN ResearchAndExpand(d, Val(Item(Item(spec_, "length_target"),
                                                    "summary_words")))
                 ELSE d

\* lines 39-43: the exception the outline raises, or "none"
BuildOutlineRaised(spec_, t) ==
    IF ~Has(spec_, "slides_count") THEN "KeyError"
    ELSE IF ~Has(spec_, "length_target") THEN "KeyError"
    ELSE IF ~Has(Item(spec_, "length_target"), "summary_words") THEN "KeyError"
    ELSE IF OutlineRaises(t, Val(Item(spec_, "slides_count"))) THEN "ZeroDivisionError"
    ELSE "none"

\* a variant that gives the slides after the last image that image too
AttachImagesRepeatLast(content, imgs) ==
    [i \in 1..Len(content) |->
        IF imgs # << >>
        THEN [content[i] EXCEPT !.image_path = Val(Item(imgs[Min(i, Len(imgs))], "path")),
                                !.alt = Val(Get(imgs[Min(i, Len(imgs))], "alt", PyStr(<< >>)))]
        ELSE content[i]]

\* lines 47-50: slides_content after the loop over imgs
AttachImages(content, imgs) ==
    [i \in 1..Len(content) |->
        IF i <= Len(imgs)
        THEN [content[i] EXCEPT !.image_path = Val(Item(imgs[i], "path")),
                                !.alt = Val(Get(imgs[i], "alt", PyStr(<< >>)))]
        ELSE content[i]]

\* imgs = input_data.get("images", [])
SpecImages(spec_) == Val(Get(Item(spec_, "input"), "images", PyList(<< >>)))

(* The specs of the build: complete ones, as merge_with_defaults and       *)
(* SpecBuilder produce them, with the parts that steer the build varied.   *)

MaxImages == 2
MaxBuildSlides == 5
SummaryWords == 9

\* d with key k set when opt is Present
WithOpt(d, k, opt) == IF opt = Absent THEN d ELSE DictSet(d, k, opt[1])

\* a text of n one-word sentences
NSentences(n) ==
    Flatten([i \in 1..n |-> <<<<"a", "b", "c", "d", "e", "f", "g", "h", "i">>[i], ".", " ">>])

BuildDescriptions == {NSentences(n) : n \in {0, 4, 7}}

\* k images; the odd ones carry an alt text
ImagesOf(k) ==
    [i \in 1..k |->
        WithOpt(PyDict([path |-> PyStr(<<"p", ToStr(i)[1]>>)]), "alt",
                IF i % 2 = 1 THEN Present(PyStr(<<"A", ToStr(i)[1]>>)) ELSE Absent)]

BuildImages == {Absent} \cup {Present(PyList(ImagesOf(k))) : k \in 0..MaxImages}

BuildAudio == {Absent, Present(PyList(<< >>)), Present(PyList(<<PyStr(<<"b">>)>>))}

BuildFiles == {{}, {<<"b">>, <<"p", "1">>}}

BuildSlidesCounts == 2..MaxBuildSlides

BuildLimits == {Absent, Present(PyInt(2)), Present(PyInt(5))}

BuildSpec(desc, audio, imgs, sc, research, limit, show) ==
    PyDict([slides_count |-> PyInt(sc),
            user |-> PyDict([name |-> PyStr(<<"U">>), brand_name |-> PyStr(<<"B">>)]),
            theme |-> PyDict([primary_color |-> PyStr(<<"#", "1", "F", "2", "D", "3", "D">>)]),
            footer |-> PyDict([text |-> PyStr(<<"F">>), show_slide_numbers |-> PyBool(show)]),
            input |-> WithOpt(WithOpt(PyDict([description |-> PyStr(desc)]),
                                      "audio_paths", audio), "images", imgs),
            length_target |-> WithOpt(PyDict([summary_words |-> PyInt(SummaryWords)]),
                                      "bullets_per_slide_max", limit),
            enable_research |-> PyBool(research)])

BuildSpecs ==
    {BuildSpec(desc, audio, imgs, sc, research, limit, show) :
        desc \in BuildDescriptions, audio \in BuildAudio, imgs \in BuildImages,
        sc \in BuildSlidesCounts, research \in BOOLEAN, limit \in BuildLimits,
        show \in BOOLEAN}

InitBuild ==
    /\ spec \in BuildSpecs
    /\ language \in Languages
    /\ files \in BuildFiles
    /\ slides_content = << >>
    /\ pptx = << >>
    /\ html = << >>
    /\ text = << >>
    /\ pc = "ready"
    /\ split_sentences = << >>
    /\ slides_count = 0
    /\ slides = << >>
    /\ raised = "none"
    /\ count = 0
    /\ ideas = << >>
    /\ max_bullets = Absent
    /\ is_valid = TRUE
    /\ warnings = << >>
    /\ IdleExcept({"proc", "files", "build"})

\* what no step of build_presentation changes
BuildFrame ==
    UNCHANGED <<language, split_sentences, count, ideas, max_bullets, is_valid, warnings,
                files, spec, expandVars, audioVars, configVars, builderVars, guiVars>>

\* lines 27-36
BuildChooseText ==
    /\ pc = "ready"
    /\ raised' = BuildTextRaised(spec)
    /\ IF BuildTextRaised(spec) = "none"
       THEN pc' = "text_chosen" /\ text' = BuildText(spec, files)
       ELSE pc' = "failed" /\ text' = text
    /\ UNCHANGED <<slides_count, slides, slides_content, pptx, html>>
    /\ BuildFrame

\* lines 39-43
BuildOutline ==
    /\ pc = "text_chosen"
    /\ raised' = BuildOutlineRaised(spec, text)
    /\ IF BuildOutlineRaised(spec, text) = "none"
       THEN /\ pc' = "outlined"
            /\ slides_count' = Val(Item(spec, "slides_count"))
            /\ slides' = OutlineSlides(language, text, Val(Item(spec, "slides_count")))
            /\ slides_content' = OutlineSlides(language, text, Val(Item(spec, "slides_count")))
       ELSE /\ pc' = "failed"
            /\ UNCHANGED <<slides_count, slides, slides_content>>
    /\ UNCHANGED <<text, pptx, html>>
    /\ BuildFrame

\* lines 46-50
BuildAttachImages ==
    /\ pc = "outlined"
    /\ pc' = "images_attached"
    /\ slides_content' = AttachImages(slides_content, SpecImages(spec))
    /\ UNCHANGED <<text, slides_count, slides, raised, pptx, html>>
    /\ BuildFrame

\* line 59
BuildGeneratePptx ==
    /\ pc = "images_attached"
    /\ IF PptxRaised(spec) # "none"
       THEN pc' = "failed" /\ raised' = PptxRaised(spec) /\ pptx' = pptx
       ELSE /\ pc' = "pptx_saved"
            /\ raised' = raised
            /\ pptx' = GeneratePptx(spec, slides_content, language, files)
    /\ UNCHANGED <<text, slides_count, slides, slides_content, html>>
    /\ BuildFrame

\* lines 60-66
BuildGenerateHtml ==
    /\ pc = "pptx_saved"
    /\ IF HtmlKeyError(spec)
       THEN pc' = "failed" /\ raised' = "KeyError" /\ html' = html
       ELSE /\ pc' = "returned"
            /\ raised' = raised
            /\ html' = GenerateHtml(spec, slides_content, language)
    /\ UNCHANGED <<text, slides_count, slides, slides_content, pptx>>
    /\ BuildFrame

NextBuild ==
    \/ BuildChooseText
    \/ BuildOutline
    \/ BuildAttachImages
    \/ BuildGeneratePptx
    \/ BuildGenerateHtml

SpecBuild == InitBuild /\ [][NextBuild]_vars

----------------------------------------------------------------------------
(* Properties of build_presentation *)

\* the loop over the images has run
Attached == pc \in {"images_attached", "pptx_saved", "returned"}

\* the images of the request
TheImages == IF Has(Item(spec, "input"), "images") THEN Val(Item(Item(spec, "input"), "images"))
             ELSE << >>

\* C14: images go to slides by position: slide i gets the path and the alt
\* text (empty when the image has none) of image i, slides beyond the last
\* image keep None and "", images beyond the last slide appear nowhere, and
\* the slides keep their number, titles and bullets.
C14_ImagesByPosition ==
    Attached =>
        /\ Len(slides_content) = Len(slides)
        /\ \A i \in 1..Len(slides) :
               /\ slides_content[i].title = slides[i].title
               /\ slides_content[i].bullets = slides[i].bullets
               /\ i <= Len(TheImages) =>
                      /\ slides_content[i].image_path = TheImages[i][2].path[2]
                      /\ slides_content[i].alt =
                             (IF "alt" \in DOMAIN TheImages[i][2] THEN TheImages[i][2].alt[2]
                              ELSE << >>)
               /\ i > Len(TheImages) =>
                      /\ slides_content[i].image_path = None
                      /\ slides_content[i].alt = << >>
        /\ \A j \in (Len(slides) + 1)..Len(TheImages) :
               \A i \in 1..Len(slides) :
                   slides_content[i].image_path # TheImages[j][2].path[2]

\* one image for two slides
C14_Witness ==
    /\ Attached
    /\ Len(TheImages) = 1
    /\ Len(slides_content) = 2
    /\ slides_content[1].image_path = <<"p", "1">>
    /\ slides_content[1].alt = <<"A", "1">>
    /\ slides_content[2].image_path = None

\* C15: a build with slides_count = N >= 3 renders exactly N slides, a
\* cover, N - 2 content slides and a conclusion, as the footers k/N say.
C15_DeckHasSlidesCount ==
    (pc = "returned" /\ slides_count >= 3) =>
        /\ Len(pptx) = slides_count
        /\ Len(html) = slides_count
        /\ Len(slides_content) = slides_count - 2

\* what a footer shows after its last "|", "" when it has none
FooterNumber(f) ==
    IF \E i \in 1..Len(f) : f[i] = "|"
    THEN LET bar == CHOOSE i \in 1..Len(f) :
                        f[i] = "|" /\ \A j \in (i + 1)..Len(f) : f[j] # "|"
         IN  Strip(SubSeq(f, bar + 1, Len(f)))
    ELSE << >>

\* C16: the page and the deck show the same slides: as many, with the same
\* title, the same bullets and the same footer number on each.
C16_HtmlEquivalentToPptx ==
    pc = "returned" =>
        /\ Len(html) = Len(pptx)
        /\ \A i \in 1..Len(pptx) :
               /\ html[i].title = pptx[i].title
               /\ html[i].bullets = pptx[i].bullets
               /\ FooterNumber(html[i].footer) = FooterNumber(pptx[i].footer)

----------------------------------------------------------------------------
(* Specifications and their defaults (src/config.py) *)

DefaultSlidesCount == 10
DefaultSummaryWords == 500
MinSlidesCount == 3

DEFAULT_THEME ==
    PyDict([font_family |-> PyStr(<<"I", "n", "t", "e", "r">>),
            primary_color |-> PyStr(<<"#", "1", "F", "2", "D", "3", "D">>),
            accent_color |-> PyStr(<<"#", "2", "9", "7", "9", "F", "F">>),
            bg_color |-> PyStr(<<"#", "F", "F", "F", "F", "F", "F">>)])

DEFAULT_LENGTH_TARGET ==
    PyDict([summary_words |-> PyInt(DefaultSummaryWords),
            bullets_per_slide_max |-> PyInt(DefaultBulletsPerSlideMax)])

DEFAULT_FOOTER ==
    PyDict([text |-> PyStr(<<"C", "o", "n", "f", "i", "d", "e", "n", "t", "i", "a", "l">>),
            show_slide_numbers |-> PyBool(TRUE)])

\* get_default_spec(language); lang is the Python value of the argument
GetDefaultSpec(lang) ==
    PyDict([language |-> lang,
            slides_count |-> PyInt(DefaultSlidesCount),
            user |-> PyDict([name |-> PyStr(<<"U", "s", "e", "r">>),
                             brand_name |-> PyStr(<<"C", "o", "m", "p", "a", "n", "y">>),
                             logo_path |-> PyStr(<< >>)]),
            footer |-> DEFAULT_FOOTER,
            theme |-> DEFAULT_THEME,
            input |-> PyDict([description |-> PyStr(<< >>), images |-> PyList(<< >>),
                              audio_paths |-> PyList(<< >>)]),
            length_target |-> DEFAULT_LENGTH_TARGET,
            output_dir |-> PyStr(<<"o", "u", "t", "p", "u", "t">>),
            enable_research |-> PyBool(FALSE)])

\* {**a, **b} for two dicts
DictMerge(a, b) ==
    PyDict([k \in DOMAIN a[2] \cup DOMAIN b[2] |-> IF k \in DOMAIN b[2] THEN b[2][k] ELSE a[2][k]])

\* a variant that lets the user's section replace the default one
MergedValueShallow(default, key, value) == value

\* the value the loop of merge_with_defaults stores under key
MergedValue(default, key, value) ==
    IF IsDict(value) /\ Has(default, key) /\ IsDict(Item(default, key))
    THEN DictMerge(Item(default, key), value)
    ELSE value

MergeWithDefaults(spec_) ==
    LET lang == Get(spec_, "language", PyStr(<<"e", "s">>))
        default == GetDefaultSpec(lang)
    IN  PyDict([k \in DOMAIN default[2] \cup DOMAIN spec_[2] |->
                   IF k \in DOMAIN spec_[2] THEN MergedValue(default, k, spec_[2][k])
                   ELSE default[2][k]])

\* isinstance(v, int): bool is a subclass of int
IsInt(v) == v[1] \in {"int", "bool"}

\* the number an int or a bool compares as
IntOf(v) == IF v[1] = "bool" THEN (IF v[2] THEN 1 ELSE 0) ELSE v[2]

RequiredFields == <<"slides_count", "user", "theme", "input">>

\* a variant that also rejects the documented minimum of three slides
SlidesCountRejectedAtMin(v) == ~IsInt(v) \/ IntOf(v) <= MinSlidesCount

\* not isinstance(v, int) or v < 3
SlidesCountRejected(v) == ~IsInt(v) \/ IntOf(v) < MinSlidesCount

\* input_data.get("description") or input_data.get("audio_paths") or input_data.get("images")
HasContent(input_data) ==
    \/ Truthy(Get(input_data, "description", PyNone))
    \/ Truthy(Get(input_data, "audio_paths", PyNone))
    \/ Truthy(Get(input_data, "images", PyNone))

\* validate_spec: the list of errors, one record per message
ValidateSpecErrors(spec_) ==
    SelectSeq([i \in 1..Len(RequiredFields) |-> [kind |-> "missing", field |-> RequiredFields[i]]],
              LAMBDA e : ~Has(spec_, e.field))
    \o (IF Has(spec_, "slides_count") /\ SlidesCountRejected(Item(spec_, "slides_count"))
        THEN <<[kind |-> "invalid", field |-> "slides_count"]>> ELSE << >>)
    \o (IF Has(spec_, "user") /\ ~Has(Item(spec_, "user"), "name")
           /\ ~Has(Item(spec_, "user"), "brand_name")
        THEN <<[kind |-> "invalid", field |-> "user"]>> ELSE << >>)
    \o (IF Has(spec_, "theme") /\ ~Has(Item(spec_, "theme"), "primary_color")
        THEN <<[kind |-> "invalid", field |-> "theme"]>> ELSE << >>)
    \o (IF Has(spec_, "input") /\ ~HasContent(Item(spec_, "input"))
        THEN <<[kind |-> "invalid", field |-> "input"]>> ELSE << >>)

(* The specs handed to validate_spec and merge_with_defaults: any of the   *)
(* top-level keys may be missing, sections may be empty or partial, and a  *)
(* value may have another type than its default.                           *)

ConfigSlidesCounts ==
    {Absent, Present(PyInt(MinSlidesCount - 1)), Present(PyInt(MinSlidesCount)),
     Present(PyStr(<<"3">>)), Present(PyBool(TRUE))}

ConfigUsers ==
    {Absent, Present(PyDict(EmptyDict)), Present(PyDict([name |-> PyStr(<<"N">>)])),
     Present(PyDict([brand_name |-> PyStr(<<"B">>), logo_path |-> PyStr(<<"L">>)]))}

ConfigThemes ==
    {Absent, Present(PyDict([font_family |-> PyStr(<<"A">>)])),
     Present(PyDict([primary_color |-> PyStr(<<"#">>)]))}

ConfigInputs ==
    {Absent, Present(PyDict(EmptyDict)),
     Present(PyDict([description |-> PyStr(<< >>)])),
     Present(PyDict([description |-> PyStr(<<"d", ".">>)])),
     Present(PyDict([audio_paths |-> PyList(<< >>), images |-> PyList(<< >>)])),
     Present(PyDict([images |-> PyList(ImagesOf(1))]))}

ConfigFooters ==
    {Absent, Present(PyStr(<<"f">>)), Present(PyDict([text |-> PyStr(<<"T">>)]))}

ConfigLanguages == {Absent, Present(PyStr(<<"e", "n">>))}

\* a dict where the default is a string, and a key the defaults do not have
ConfigOutputDirs == {Absent, Present(PyDict(EmptyDict))}
ConfigNotes == {Absent, Present(PyStr(<<"n">>))}

ConfigSpec(sc, user, theme, input_data, footer, lang, dir, notes) ==
    WithOpt(WithOpt(WithOpt(WithOpt(WithOpt(WithOpt(WithOpt(WithOpt(
        PyDict(EmptyDict), "slides_count", sc), "user", user), "theme", theme),
        "input", input_data), "footer", footer), "language", lang), "output_dir", dir),
        "notes", notes)

ConfigSpecs ==
    {ConfigSpec(sc, user, theme, input_data, footer, lang, dir, notes) :
        sc \in ConfigSlidesCounts, user \in ConfigUsers, theme \in ConfigThemes,
        input_data \in ConfigInputs, footer \in ConfigFooters, lang \in ConfigLanguages,
        dir \in ConfigOutputDirs, notes \in ConfigNotes}

InitConfig ==
    /\ spec \in ConfigSpecs
    /\ slides_content = << >>
    /\ pptx = << >>
    /\ html = << >>
    /\ spec_valid = TRUE
    /\ errors = << >>
    /\ merged = << >>
    /\ IdleExcept({"build", "config"})

\* validate_spec(spec)
ValidateSpec ==
    /\ pc = "ready"
    /\ pc' = "validate_spec"
    /\ errors' = ValidateSpecErrors(spec)
    /\ spec_valid' = (Len(ValidateSpecErrors(spec)) = 0)
    /\ UNCHANGED <<merged, buildVars, files, expandVars, audioVars, builderVars, guiVars>>
    /\ UNCHANGED <<language, text, split_sentences, slides_count, slides, raised, count,
                   ideas, max_bullets, is_valid, warnings>>

\* merge_with_defaults(spec)
MergeWithDefaultsCall ==
    /\ pc = "ready"
    /\ pc' = "merge_with_defaults"
    /\ merged' = MergeWithDefaults(spec)
    /\ UNCHANGED <<spec_valid, errors, buildVars, files, expandVars, audioVars, builderVars, guiVars>>
    /\ UNCHANGED <<language, text, split_sentences, slides_count, slides, raised, count,
                   ideas, max_bullets, is_valid, warnings>>

NextConfig ==
    \/ ValidateSpec
    \/ MergeWithDefaultsCall

SpecConfig == InitConfig /\ [][NextConfig]_vars

----------------------------------------------------------------------------
(* Properties of validate_spec and merge_with_defaults *)

\* the keys of the spec and of one of its sections
SpecKeys == DOMAIN spec[2]
SectionKeys(k) == DOMAIN spec[2][k][2]

\* the rules of validate_spec, each about a key that is present
SlidesCountOk == spec[2].slides_count[1] = "int" /\ spec[2].slides_count[2] >= 3
UserOk == "name" \in SectionKeys("user") \/ "brand_name" \in SectionKeys("user")
ThemeOk == "primary_color" \in SectionKeys("theme")
InputOk ==
    \E k \in {"description", "audio_paths", "images"} :
        k \in SectionKeys("input") /\ spec[2].input[2][k][2] # << >>

RuleOk(k) ==
    CASE k = "slides_count" -> SlidesCountOk
      [] k = "user" -> UserOk
      [] k = "theme" -> ThemeOk
      [] k = "input" -> InputOk

ErrorsOf(kind, k) == {e \in 1..Len(errors) : errors[e] = [kind |-> kind, field |-> k]}

\* C17: validate_spec accepts exactly the specs that have the four required
\* keys, an integer slides_count >= 3, a user with a name or a brand name, a
\* theme with a primary colour and an input with a non-empty description,
\* audio list or image list; it reports every missing key and every rule a
\* present key breaks by one error each, and nothing else.
C17_ValidateSpec ==
    pc = "validate_spec" =>
        /\ spec_valid = (\A k \in {"slides_count", "user", "theme", "input"} :
                            k \in SpecKeys /\ RuleOk(k))
        /\ spec_valid = (errors = << >>)
        /\ \A k \in {"slides_count", "user", "theme", "input"} :
               /\ Cardinality(ErrorsOf("missing", k)) = (IF k \in SpecKeys THEN 0 ELSE 1)
               /\ Cardinality(ErrorsOf("invalid", k)) =
                      (IF k \in SpecKeys /\ ~RuleOk(k) THEN 1 ELSE 0)
        /\ \A e \in 1..Len(errors) :
               \E k \in {"slides_count", "user", "theme", "input"} :
                   e \in ErrorsOf("missing", k) \cup ErrorsOf("invalid", k)

\* a spec without a theme, with slides_count = True and an empty user
C17_Witness ==
    /\ pc = "validate_spec"
    /\ ~spec_valid
    /\ "theme" \notin SpecKeys
    /\ errors = <<[kind |-> "missing", field |-> "theme"],
                  [kind |-> "invalid", field |-> "slides_count"],
                  [kind |-> "invalid", field |-> "user"]>>

\* what merge_with_defaults takes the defaults from
TheDefault ==
    GetDefaultSpec(IF "language" \in SpecKeys THEN spec[2].language ELSE PyStr(<<"e", "s">>))

Sections == {"user", "footer", "theme", "input", "length_target"}

\* C18: the merged spec has every key of the default spec and, for each
\* section the user left out or gave as a dict, every key of the default
\* section; whatever the user gave, at the top or inside a section, is in
\* the result; and merging the result again changes nothing.
C18_MergeWithDefaults ==
    pc = "merge_with_defaults" =>
        /\ DOMAIN TheDefault[2] \subseteq DOMAIN merged[2]
        /\ \A k \in Sections :
               (k \notin SpecKeys \/ spec[2][k][1] = "dict") =>
                   /\ merged[2][k][1] = "dict"
                   /\ DOMAIN TheDefault[2][k][2] \subseteq DOMAIN merged[2][k][2]
        /\ \A k \in SpecKeys :
               /\ k \in DOMAIN merged[2]
               /\ IF spec[2][k][1] = "dict" /\ k \in Sections
                  THEN \A kk \in SectionKeys(k) :
                           /\ kk \in DOMAIN merged[2][k][2]
                           /\ merged[2][k][2][kk] = spec[2][k][2][kk]
                  ELSE merged[2][k] = spec[2][k]
        /\ \A k \in DOMAIN merged[2] :
               k \in SpecKeys \/ (k \in DOMAIN TheDefault[2] /\ merged[2][k] = TheDefault[2][k])
        /\ MergeWithDefaults(merged) = merged

\* a partial user section, a footer that is no dict and an unknown key
C18_Witness ==
    /\ pc = "merge_with_defaults"
    /\ "user" \in SpecKeys /\ "footer" \in SpecKeys /\ "notes" \in SpecKeys
    /\ spec[2].user = PyDict([name |-> PyStr(<<"N">>)])
    /\ merged[2].user[2].name = PyStr(<<"N">>)
    /\ merged[2].user[2].brand_name = PyStr(<<"C", "o", "m", "p", "a", "n", "y">>)
    /\ merged[2].footer = PyStr(<<"f">>)
    /\ merged[2].notes = PyStr(<<"n">>)
    /\ merged[2].slides_count = PyInt(10)

----------------------------------------------------------------------------
(* SpecBuilder (src/config.py)                                             *)
(*                                                                         *)
(* One builder; every setter is an action that updates the builder's spec  *)
(* and returns self.  An argument left out of a call has its default: None *)
(* for the optional ones, True for show_numbers and enable, "" for alt.    *)

MaxCalls == 2

\* self.spec[section][key] = v
SetIn(b, section, key, v) == DictSet(b, section, DictSet(Item(b, section), key, v))

\* a variant that stores the argument whatever it is
SetIfGivenAlways(b, section, key, v) == SetIn(b, section, key, v)

\* if v: self.spec[section][key] = v
SetIfGiven(b, section, key, v) == IF Truthy(v) THEN SetIn(b, section, key, v) ELSE b

\* the setter op was called with args and returned self
Called(op, args) ==
    /\ Len(history) < MaxCalls
    /\ history' = Append(history, [op |-> op, args |-> args, returns |-> "self"])
    /\ UNCHANGED <<procVars, files, expandVars, audioVars, buildVars, configVars, guiVars>>

OptStr(c) == {PyNone, PyStr(<<c>>)}

InitBuilder ==
    /\ \E lang \in {PyStr(<<"e", "s">>), PyStr(<<"e", "n">>)} : builder = GetDefaultSpec(lang)
    /\ history = << >>
    /\ IdleExcept({"builder"})

SetSlidesCount(cnt) ==
    /\ builder' = DictSet(builder, "slides_count", cnt)
    /\ Called("set_slides_count", <<cnt>>)

SetUser(name, brand_name, logo_path) ==
    /\ builder' = SetIfGiven(SetIfGiven(SetIfGiven(builder, "user", "name", name),
                                        "user", "brand_name", brand_name),
                             "user", "logo_path", logo_path)
    /\ Called("set_user", <<name, brand_name, logo_path>>)

SetFooter(footer_text, show_numbers) ==
    /\ builder' = SetIn(SetIn(builder, "footer", "text", footer_text),
                        "footer", "show_slide_numbers", show_numbers)
    /\ Called("set_footer", <<footer_text, show_numbers>>)

SetTheme(font_family, primary_color, accent_color, bg_color) ==
    /\ builder' = SetIfGiven(SetIfGiven(SetIfGiven(SetIfGiven(builder,
                                 "theme", "font_family", font_family),
                                 "theme", "primary_color", primary_color),
                                 "theme", "accent_color", accent_color),
                                 "theme", "bg_color", bg_color)
    /\ Called("set_theme", <<font_family, primary_color, accent_color, bg_color>>)

SetDescription(d) ==
    /\ builder' = SetIn(builder, "input", "description", d)
    /\ Called("set_description", <<d>>)

AddImage(path, alt) ==
    /\ builder' = SetIn(builder, "input", "images",
                        PyList(Append(Val(Item(Item(builder, "input"), "images")),
                                      PyDict([path |-> path, alt |-> alt]))))
    /\ Called("add_image", <<path, alt>>)

AddAudio(path) ==
    /\ builder' = SetIn(builder, "input", "audio_paths",
                        PyList(Append(Val(Item(Item(builder, "input"), "audio_paths")), path)))
    /\ Called("add_audio", <<path>>)

SetLengthTarget(summary_words, bullets_per_slide) ==
    /\ builder' = SetIfGiven(SetIfGiven(builder, "length_target", "summary_words",
                                        summary_words),
                             "length_target", "bullets_per_slide_max", bullets_per_slide)
    /\ Called("set_length_target", <<summary_words, bullets_per_slide>>)

SetOutputDir(directory) ==
    /\ builder' = DictSet(builder, "output_dir", directory)
    /\ Called("set_output_dir", <<directory>>)

EnableResearch(enable) ==
    /\ builder' = DictSet(builder, "enable_research", enable)
    /\ Called("enable_research", <<enable>>)

PyBools == {PyBool(TRUE), PyBool(FALSE)}

NextBuilder ==
    \/ \E cnt \in {PyInt(0), PyInt(7)} : SetSlidesCount(cnt)
    \/ \E name \in OptStr("N"), brand_name \in {PyStr(<< >>), PyStr(<<"B">>)},
          logo_path \in OptStr("L") : SetUser(name, brand_name, logo_path)
    \/ \E t \in {PyStr(<< >>), PyStr(<<"T">>)}, show \in PyBools : SetFooter(t, show)
    \/ \E f \in OptStr("A"), p \in OptStr("P"), a \in OptStr("C"), g \in OptStr("G") :
          SetTheme(f, p, a, g)
    \/ \E d \in {PyStr(<< >>), PyStr(<<"d", ".">>)} : SetDescription(d)
    \/ \E path \in {PyStr(<<"p">>), PyStr(<<"q">>)}, alt \in {PyStr(<< >>), PyStr(<<"A">>)} :
          AddImage(path, alt)
    \/ \E path \in {PyStr(<<"b">>), PyStr(<<"c">>)} : AddAudio(path)
    \/ \E sw \in {PyNone, PyInt(0), PyInt(300)}, bps \in {PyNone, PyInt(5)} :
          SetLengthTarget(sw, bps)
    \/ \E directory \in {PyStr(<< >>), PyStr(<<"o">>)} : SetOutputDir(directory)
    \/ \E enable \in PyBools : EnableResearch(enable)

SpecBuilderCalls == InitBuilder /\ [][NextBuilder]_vars

----------------------------------------------------------------------------
(* Properties of SpecBuilder *)

\* the fields a setter writes: the section ("" at the top level), the key,
\* the setter, the position of the argument, and whether the setter skips
\* an argument that is None, empty or zero
BuilderField(sec, key, op, arg, cond) ==
    [sec |-> sec, key |-> key, op |-> op, arg |-> arg, cond |-> cond]

BuilderFields ==
    { BuilderField("", "slides_count", "set_slides_count", 1, FALSE),
      BuilderField("user", "name", "set_user", 1, TRUE),
      BuilderField("user", "brand_name", "set_user", 2, TRUE),
      BuilderField("user", "logo_path", "set_user", 3, TRUE),
      BuilderField("footer", "text", "set_footer", 1, FALSE),
      BuilderField("footer", "show_slide_numbers", "set_footer", 2, FALSE),
      BuilderField("theme", "font_family", "set_theme", 1, TRUE),
      BuilderField("theme", "primary_color", "set_theme", 2, TRUE),
      BuilderField("theme", "accent_color", "set_theme", 3, TRUE),
      BuilderField("theme", "bg_color", "set_theme", 4, TRUE),
      BuilderField("input", "description", "set_description", 1, FALSE),
      BuilderField("length_target", "summary_words", "set_length_target", 1, TRUE),
      BuilderField("length_target", "bullets_per_slide_max", "set_length_target", 2, TRUE),
      BuilderField("", "output_dir", "set_output_dir", 1, FALSE),
      BuilderField("", "enable_research", "enable_research", 1, FALSE) }

FieldOf(b, f) == IF f.sec = "" THEN b[2][f.key] ELSE b[2][f.sec][2][f.key]

\* the defaults the builder started from
BuilderDefault == GetDefaultSpec(builder[2].language)

\* the calls that supplied a value for field f
Suppliers(f) ==
    {i \in 1..Len(history) :
        /\ history[i].op = f.op
        /\ f.cond => history[i].args[f.arg] \notin {PyNone, PyStr(<< >>), PyInt(0)}}

LastOf(S) == CHOOSE i \in S : \A j \in S : j <= i

CallsOf(op) == SelectSeq(history, LAMBDA c : c.op = op)

\* C19: every setter call returned the builder itself; each field holds the
\* value of the last call that supplied one (for set_user, set_theme and
\* set_length_target: one that is not None, empty or zero) and its default
\* when no call did; the image and audio lists hold what add_image and
\* add_audio were given, in call order; nothing else changed.
C19_BuilderFields ==
    /\ \A i \in 1..Len(history) : history[i].returns = "self"
    /\ \A f \in BuilderFields :
           FieldOf(builder, f) =
               (IF Suppliers(f) = {} THEN FieldOf(BuilderDefault, f)
                ELSE history[LastOf(Suppliers(f))].args[f.arg])
    /\ builder[2].input[2].images[2] =
           [i \in 1..Len(CallsOf("add_image")) |->
               PyDict([path |-> CallsOf("add_image")[i].args[1],
                       alt |-> CallsOf("add_image")[i].args[2]])]
    /\ builder[2].input[2].audio_paths[2] =
           [i \in 1..Len(CallsOf("add_audio")) |-> CallsOf("add_audio")[i].args[1]]
    /\ DOMAIN builder[2] = DOMAIN BuilderDefault[2]
    /\ \A k \in {"user", "footer", "theme", "input", "length_target"} :
           DOMAIN builder[2][k][2] = DOMAIN BuilderDefault[2][k][2]

\* set_user with the name left out after a set_user that gave one
C19_Witness ==
    /\ Len(history) = 2
    /\ history[1].op = "set_user" /\ history[1].args[1] = PyStr(<<"N">>)
    /\ history[2].op = "set_user" /\ history[2].args[1] = PyNone
    /\ history[2].args[2] = PyStr(<<"B">>)
    /\ builder[2].user[2].name = PyStr(<<"N">>)
    /\ builder[2].user[2].brand_name = PyStr(<<"B">>)

----------------------------------------------------------------------------
(* The windows of summarize_and_outline *)

\* the position in the text's sentence list of bullet j of slide k (both
\* counted from 1) when full windows hold sps sentences
BulletPosition(sps, k, j) == (k - 1) * sps + j

\* C20: with sps = max(3, n div (slides_count - 2)), the bullets of slide k
\* (from 0) are the sentences at positions k * sps, k * sps + 1, ... of its
\* window [k * sps, (k + 1) * sps), from the window's first sentence on and
\* without a gap; no sentence is used by two slides; and every slide but the
\* last has a full window of sps sentences.
C20_ContiguousWindows ==
    Outlined =>
        IF CSlides < 1 THEN slides = << >>
        ELSE LET ss == TheSentences
                 n == Len(ss)
                 sps == IF n \div CSlides >= 3 THEN n \div CSlides ELSE 3
             IN  /\ \A k \in 1..Len(slides) :
                        /\ slides[k].bullets # << >>
                        /\ \A j \in 1..Len(slides[k].bullets) :
                               /\ j <= sps
                               /\ BulletPosition(sps, k, j) <= n
                               /\ IsBulletOf(slides[k].bullets[j],
                                             ss[BulletPosition(sps, k, j)])
                        /\ k < Len(slides) => k * sps <= n
                 /\ \A k1, k2 \in 1..Len(slides) :
                        \A j1 \in 1..Len(slides[k1].bullets), j2 \in 1..Len(slides[k2].bullets) :
                            BulletPosition(sps, k1, j1) = BulletPosition(sps, k2, j2)
                                => (k1 = k2 /\ j1 = j2)

\* four sentences on two slides: a full window of three and a last one of one
C20_Witness ==
    /\ Outlined
    /\ slides_count = 4
    /\ Len(TheSentences) = 4
    /\ Len(slides) = 2
    /\ Len(slides[1].bullets) = 3
    /\ slides[2].bullets = <<TheSentences[4]>>

----------------------------------------------------------------------------
(* The titles of summarize_and_outline *)

\* the positions where a word of s starts and where one ends: a word is a
\* maximal run of characters that are not whitespace
WordStarts(s) ==
    {a \in 1..Len(s) : ~IsBlankChar(s[a]) /\ (a = 1 \/ IsBlankChar(s[a - 1]))}

WordEnds(s) ==
    {b \in 1..Len(s) : ~IsBlankChar(s[b]) /\ (b = Len(s) \/ IsBlankChar(s[b + 1]))}

NumWords(s) == Cardinality(WordStarts(s))

\* the k-th word of s, counted from 1
WordAt(s, k) == SubSeq(s, NthSmallest(WordStarts(s), k), NthSmallest(WordEnds(s), k))

\* the first m words of s with one space between neighbours
RECURSIVE FirstWords(_, _)
FirstWords(s, m) ==
    IF m = 0 THEN << >>
    ELSE IF m = 1 THEN WordAt(s, 1)
    ELSE FirstWords(s, m - 1) \o <<" ">> \o WordAt(s, m)

\* the fallback titles "Section N" / "Seccion N" of either language
FallbackTitles ==
    {SectionLabel(lang) \o <<" ">> \o ToStr(num) : lang \in Languages, num \in 1..(MaxSlidesCount + 1)}

\* C21: every slide returned by summarize_and_outline has a non-empty window,
\* and its title is non-empty and is the first five whitespace-separated
\* words of the window's first sentence joined by single spaces, followed by
\* "..." iff that sentence has more than five words; the "Section N" fallback
\* title is never produced.
C21_Titles ==
    Outlined =>
        LET ss == TheSentences
            n == Len(ss)
        IN  \A k \in 1..Len(slides) :
                LET sps == SpsOf(n, CSlides)
                    first == WindowFirst(sps, k)
                IN  /\ first <= n
                    /\ slides[k].title # << >>
                    /\ slides[k].title \notin FallbackTitles
                    /\ LET w == NumWords(ss[first])
                       IN  /\ w >= 1
                           /\ slides[k].title =
                                  IF w > 5 THEN FirstWords(ss[first], 5) \o <<".", ".", ".">>
                                  ELSE FirstWords(ss[first], w)

\* a slide whose first sentence has six words separated by runs of blanks,
\* next to a slide whose first sentence has one word
C21_Witness ==
    /\ Outlined
    /\ Len(slides) >= 2
    /\ \E k \in 1..Len(slides) :
           slides[k].title = <<"c", " ", "d", " ", "e", " ", "f", " ", "g", ".", ".", ".">>
    /\ \E k \in 1..Len(slides) : Len(slides[k].title) = 1

----------------------------------------------------------------------------
(* The failure of research_and_expand *)

\* the description is empty or holds whitespace only
BlankDescription == \A i \in 1..Len(description) : IsBlankChar(description[i])

\* C22: research_and_expand raises ZeroDivisionError and returns no text
\* exactly when the description has no word (it is empty or whitespace
\* only), whatever target_words is; with at least one word it returns.
C22_ExpandFailure ==
    (pc = "research_and_expand") =>
        /\ raised \in {"none", "ZeroDivisionError"}
        /\ (raised = "ZeroDivisionError") <=> BlankDescription
        /\ (raised = "ZeroDivisionError") => expanded = << >>

\* a whitespace-only description fails for a positive target, and a
\* one-word description returns for a negative one
C22_Witness ==
    /\ pc = "research_and_expand"
    /\ \/ /\ description = <<" ", " ">>
          /\ target_words = 3
          /\ raised = "ZeroDivisionError"
       \/ /\ description = <<"a">>
          /\ target_words = 0 - 1
          /\ raised = "none"
          /\ expanded = << >>

----------------------------------------------------------------------------
(* The consumers of the slide content                                      *)
(*                                                                         *)
(* validate_content, generate_pptx and generate_html get the list of slide *)
(* dictionaries and the spec by reference, so what a call leaves in them   *)
(* is part of its effect.  The renderers are called in the order of        *)
(* build_presentation; validate_content may be called at any point.        *)

ConsumerSpecs ==
    {BuildSpec(NSentences(4), Absent, Absent, 3, FALSE, limit, show) :
        limit \in BuildLimits, show \in BOOLEAN}

InitConsumers ==
    /\ spec \in ConsumerSpecs
    /\ slides_content \in ValSlideLists
    /\ language \in Languages
    /\ files \in SUBSET ImageFiles
    /\ pptx = << >>
    /\ html = << >>
    /\ text = << >>
    /\ pc = "ready"
    /\ split_sentences = << >>
    /\ slides_count = 0
    /\ slides = << >>
    /\ raised = "none"
    /\ count = 0
    /\ ideas = << >>
    /\ max_bullets = Absent
    /\ is_valid = TRUE
    /\ warnings = << >>
    /\ IdleExcept({"proc", "files", "build"})

\* spec["length_target"].get("bullets_per_slide_max", 6), before the default
SpecBulletLimit(spec_) ==
    IF Has(Item(spec_, "length_target"), "bullets_per_slide_max")
    THEN Present(Val(Item(Item(spec_, "length_target"), "bullets_per_slide_max")))
    ELSE Absent

\* what no consumer changes
ConsumerFrame ==
    UNCHANGED <<language, text, split_sentences, slides_count, slides, raised, count,
                ideas, files, expandVars, audioVars, configVars, builderVars, guiVars>>

\* validate_content(slides_content, spec)
ValidateContentCall ==
    /\ pc # "validate_content"
    /\ pc' = "validate_content"
    /\ max_bullets' = SpecBulletLimit(spec)
    /\ warnings' = ValidateWarnings(slides_content, SpecBulletLimit(spec), files)
    /\ is_valid' = (Len(ValidateWarnings(slides_content, SpecBulletLimit(spec), files)) = 0)
    /\ UNCHANGED <<spec, slides_content, pptx, html>>
    /\ ConsumerFrame

\* a variant of generate_pptx whose add_bullets cuts the list it is given
\* (del bullets[max_bullets:]) instead of slicing a copy
GeneratePptxCallCutting ==
    /\ pptx = << >>
    /\ pc' = "generate_pptx"
    /\ pptx' = GeneratePptx(spec, slides_content, language, files)
    /\ slides_content' =
           [i \in 1..Len(slides_content) |->
               [slides_content[i] EXCEPT
                   !.bullets = PySlice(@, 0, Val(Get(Item(spec, "length_target"),
                                                     "bullets_per_slide_max",
                                                     PyInt(DefaultBulletsPerSlideMax))))]]
    /\ UNCHANGED <<spec, html, max_bullets, warnings, is_valid>>
    /\ ConsumerFrame

\* generate_pptx(spec, slides_content, pptx_path, language)
GeneratePptxCall ==
    /\ pptx = << >>
    /\ pc' = "generate_pptx"
    /\ pptx' = GeneratePptx(spec, slides_content, language, files)
    /\ UNCHANGED <<spec, slides_content, html, max_bullets, warnings, is_valid>>
    /\ ConsumerFrame

\* generate_html(spec, slides_content, html_path, language)
GenerateHtmlCall ==
    /\ pptx # << >>
    /\ html = << >>
    /\ pc' = "generate_html"
    /\ html' = GenerateHtml(spec, slides_content, language)
    /\ UNCHANGED <<spec, slides_content, pptx, max_bullets, warnings, is_valid>>
    /\ ConsumerFrame

NextConsumers ==
    \/ ValidateContentCall
    \/ GeneratePptxCall
    \/ GenerateHtmlCall

SpecConsumers == InitConsumers /\ [][NextConsumers]_vars

\* C23: no call of validate_content, generate_pptx or generate_html changes
\* the slide content (its length, its order, the title, bullets, image_path
\* and alt of every slide) or the spec, so the page is rendered from the very
\* sequence the deck was rendered from.
C23_ConsumersDoNotMutate ==
    /\ [][slides_content' = slides_content /\ spec' = spec]_vars
    /\ [](html # << >> =>
              /\ pptx = GeneratePptx(spec, slides_content, language, files)
              /\ html = GenerateHtml(spec, slides_content, language))

\* all three consumers ran on a slide of seven bullets under a limit of five:
\* the deck shows five bullets, the list still holds seven
C23_Witness ==
    /\ pc = "validate_content"
    /\ html # << >>
    /\ max_bullets = Present(5)
    /\ warnings # << >>
    /\ Len(slides_content) = 2
    /\ Len(slides_content[1].bullets) = DefaultBulletsPerSlideMax + 1
    /\ Len(pptx[2].bullets) = 5
    /\ slides_content[2].image_path = <<"b">>

----------------------------------------------------------------------------
(* The text source of build_presentation *)

\* the request names at least one audio file
AudioGiven ==
    /\ Has(Item(spec, "input"), "audio_paths")
    /\ Val(Item(Item(spec, "input"), "audio_paths")) # << >>

TheDescription ==
    IF Has(Item(spec, "input"), "description")
    THEN Val(Item(Item(spec, "input"), "description")) ELSE << >>

ResearchEnabled ==
    Has(spec, "enable_research") /\ Val(Item(spec, "enable_research")) = TRUE

\* the steps of a build in their order
BuildStep(p) ==
    CASE p = "ready" -> 0
      [] p = "text_chosen" -> 1
      [] p = "outlined" -> 2
      [] p = "images_attached" -> 3
      [] p = "pptx_saved" -> 4
      [] p = "returned" -> 5
      [] p = "failed" -> 6

\* C24: a build has one text source.  With a non-empty audio_paths the text
\* is the transcription, whatever description and enable_research are;
\* otherwise it is the description, expanded by research_and_expand iff
\* enable_research is true.  summarize_and_outline runs once, on that text,
\* after the text is chosen and before any image is attached or any output
\* is rendered.
C24_OneTextSource ==
    /\ [](BuildStep(pc) \in 1..5 =>
              text = IF AudioGiven
                     THEN TranscribeAudio(StrList(Val(Item(Item(spec, "input"), "audio_paths"))),
                                          files)
                     ELSE IF ResearchEnabled
                          THEN ResearchAndExpand(TheDescription, SummaryWords)
                          ELSE TheDescription)
    /\ [](BuildStep(pc) \in 2..5 =>
              /\ slides = OutlineSlides(language, text, Val(Item(spec, "slides_count")))
              /\ Len(slides_content) = Len(slides)
              /\ \A i \in 1..Len(slides) :
                     /\ slides_content[i].title = slides[i].title
                     /\ slides_content[i].bullets = slides[i].bullets)
    /\ [](BuildStep(pc) \in 0..2 =>
              /\ pptx = << >>
              /\ html = << >>
              /\ \A i \in 1..Len(slides_content) : slides_content[i].image_path = None)
    /\ [][BuildStep(pc') > BuildStep(pc)]_vars
    /\ [][(slides' # slides \/ text' # text) => BuildStep(pc') \in 1..2]_vars

\* a request with audio, a description and research enabled: the text is the
\* transcription of the one existing file and the outline is built from it
C24_Witness ==
    /\ pc = "returned"
    /\ AudioGiven
    /\ ResearchEnabled
    /\ TheDescription = NSentences(4)
    /\ text = Placeholder(<<"b">>)
    /\ slides # << >>

----------------------------------------------------------------------------
(* summarize_and_outline with all of its parameters                        *)
(*                                                                         *)
(* The call takes text, slides_count and target_words and runs on a        *)
(* processor constructed with a language; the limit of the caller's spec   *)
(* (max_bullets) is no parameter of it.                                    *)

MaxOutlineSegs == 2

OutlineTexts == {Flatten(ss) : ss \in UNION {[1..k -> Segs] : k \in 0..MaxOutlineSegs}}

\* target_words around zero and at the default of the signature
OutlineTargetWords == TargetWords \cup {DefaultSummaryWords}

\* a variant that returns at most target_words slides
SummarizeAndOutlineCapped(lang, t, sc, tw) == PySlice(OutlineSlides(lang, t, sc), 0, tw)

\* summarize_and_outline(text, slides_count, target_words) on a processor of
\* language lang: target_words is not read
SummarizeAndOutlineResult(lang, t, sc, tw) == OutlineSlides(lang, t, sc)

InitOutline ==
    /\ language \in Languages
    /\ text \in OutlineTexts
    /\ max_bullets \in BulletLimits
    /\ pc = "ready"
    /\ split_sentences = << >>
    /\ slides_count = 0
    /\ slides = << >>
    /\ raised = "none"
    /\ count = 0
    /\ ideas = << >>
    /\ is_valid = TRUE
    /\ warnings = << >>
    /\ description = << >>
    /\ target_words = 0
    /\ expanded = << >>
    /\ IdleExcept({"proc", "expand"})

SummarizeAndOutlineCall(sc, tw) ==
    /\ pc = "ready"
    /\ pc' = "summarize_and_outline"
    /\ slides_count' = sc
    /\ target_words' = tw
    /\ IF OutlineRaises(text, sc)
       THEN raised' = "ZeroDivisionError" /\ slides' = slides
       ELSE raised' = "none" /\ slides' = SummarizeAndOutlineResult(language, text, sc, tw)
    /\ UNCHANGED <<language, text, split_sentences, count, ideas, max_bullets, is_valid,
                   warnings, files, description, expanded>>
    /\ UNCHANGED <<audioVars, buildVars, configVars, builderVars, guiVars>>

NextOutline == \E sc \in SlidesCounts, tw \in OutlineTargetWords : SummarizeAndOutlineCall(sc, tw)

SpecOutline == InitOutline /\ [][NextOutline]_vars

\* C25: what summarize_and_outline returns is fixed by text and
\* slides_count: a call with the same text and slides_count but any other
\* target_words, on a processor of any other language, under any limit of
\* the spec, returns the same list of slides.
C25_OutlineDependsOnTextAndCount ==
    (pc = "summarize_and_outline" /\ raised = "none") =>
        \A lang \in Languages, tw \in OutlineTargetWords :
            /\ ~OutlineRaises(text, slides_count)
            /\ slides = SummarizeAndOutlineResult(lang, text, slides_count, tw)

\* an English call with target_words 0 that returned two slides
C25_Witness ==
    /\ pc = "summarize_and_outline"
    /\ raised = "none"
    /\ language = "en"
    /\ target_words = 0
    /\ max_bullets = Present(DefaultBulletsPerSlideMax - 1)
    /\ Len(slides) = 2

----------------------------------------------------------------------------
(* Generated content under validate_content *)

\* C26: the slides summarize_and_outline returns for slides_count >= 3,
\* validated as they are (no image attached) with a limit of six or more
\* bullets, the default limit included, give no warning and the verdict
\* true; whatever the limit, no generated bullet is reported as too long.
C26_GeneratedContentIsValid ==
    (pc = "validate_content" /\ slides_count >= 3) =>
        /\ \A w \in 1..Len(warnings) : warnings[w].kind = "bullets"
        /\ BulletLimit(max_bullets) >= DefaultBulletsPerSlideMax =>
               (is_valid /\ warnings = << >>)
        /\ is_valid <=> warnings = << >>

\* the default limit, a slide with six bullets and a bullet that was cut to
\* 120 characters
C26_Witness ==
    /\ pc = "validate_content"
    /\ slides_count >= 3
    /\ max_bullets = Absent
    /\ is_valid
    /\ warnings = << >>
    /\ \E k \in 1..Len(slides) : Len(slides[k].bullets) = DefaultMaxBullets
    /\ \E k \in 1..Len(slides) : \E j \in 1..Len(slides[k].bullets) :
           /\ Len(slides[k].bullets[j]) = MaxBulletLen
           /\ slides[k].bullets[j][MaxBulletLen] = "."

----------------------------------------------------------------------------
(* Sentences that reach no slide *)

\* C27: with n sentences and c = slides_count - 2 >= 1 content slides,
\* every sentence becomes exactly one bullet (in order, whole or cut) iff
\* n <= 3 * c, or n is a multiple of c and n / c <= 6; otherwise fewer than
\* n bullets are returned, so at least one sentence is dropped.
C27_LosslessCases ==
    (Outlined /\ CSlides >= 1) =>
        LET ss == TheSentences
            n == Len(ss)
            c == CSlides
            bs == AllBullets(slides)
            lossless == /\ Len(bs) = n
                        /\ \A i \in 1..n : IsBulletOf(bs[i], ss[i])
        IN  /\ Len(bs) <= n
            /\ lossless <=> (n <= 3 * c \/ (n % c = 0 /\ n \div c <= 6))
            /\ ~lossless => Len(bs) < n

\* seven sentences for two content slides: windows of three, the seventh
\* sentence is dropped
C27_Witness ==
    /\ Outlined
    /\ CSlides = 2
    /\ Len(TheSentences) = 7
    /\ Len(slides) = 2
    /\ Len(AllBullets(slides)) = 6

----------------------------------------------------------------------------
(* The GUI's generate handler (src/gui.py)                                 *)
(*                                                                         *)
(* PresentationGeneratorGUI.generate_presentation runs when the Generate   *)
(* button is clicked.  It is modelled step by step: the two input gates,   *)
(* the construction of the spec, validate_spec, the five steps of          *)
(* build_presentation, the success dialog and the except clause.  Between  *)
(* two clicks the user may edit the form.  The status texts are the ones   *)
(* of the status bar without their check and cross marks.  The fields the  *)
(* model does not vary stay as the constructor sets them.  The locals of   *)
(* the handler and of build_presentation are gone when the handler         *)
(* returns; result, raised and the last dialog are kept for inspection     *)
(* until the next click, and the two output files stay on the disk.        *)

GuiBrandNames == { << >>, <<" ">>, <<"B">> }

\* what the spinbox holds: a number (below and at the minimum) or other text
GuiSlidesCounts == { PyInt(MinSlidesCount - 1), PyInt(MinSlidesCount), PyStr(<<"x">>) }

\* what description_textbox.get('1.0', tk.END) returns ends with a newline
GuiDescriptions == { <<"\n">>, NSentences(4) \o <<"\n">> }

GuiImageLists == { << >>, << <<"p", "1">> >> }

GuiColors == { <<"#", "1", "F", "2", "D", "3", "D">>, <<"r", "e", "d">> }

Platforms == {"win32", "linux"}

\* Path(img_path).stem for a path whose name has no leading or trailing dot
Stem(p) ==
    LET name == Basename(p)
    IN  IF \E i \in 2..Len(name) : name[i] = "."
        THEN SubSeq(name, 1,
                    (CHOOSE i \in 2..Len(name) :
                         name[i] = "." /\ \A j \in (i + 1)..Len(name) : name[j] # ".") - 1)
        ELSE name

LanguageCode(lang) == IF lang = "en" THEN <<"e", "n">> ELSE <<"e", "s">>

\* lines 258-280: the spec the handler builds from the form
GuiBuiltSpec(lang, sc, brand, desc, imgs, primary) ==
    LET b0 == GetDefaultSpec(PyStr(LanguageCode(lang)))
        b1 == DictSet(b0, "slides_count", sc)
        b2 == SetIfGiven(SetIfGiven(SetIfGiven(b1, "user", "name", PyNone),
                                    "user", "brand_name", PyStr(brand)),
                         "user", "logo_path", PyNone)
        b3 == SetIn(SetIn(b2, "footer", "text",
                          PyStr(<<"C", "o", "n", "f", "i", "d", "e", "n", "t", "i", "a", "l",
                                  " ", "2", "0", "2", "6">>)),
                    "footer", "show_slide_numbers", PyBool(TRUE))
        b4 == SetIfGiven(SetIfGiven(SetIfGiven(SetIfGiven(b3,
                  "theme", "font_family", PyStr(<<"I", "n", "t", "e", "r">>)),
                  "theme", "primary_color", PyStr(primary)),
                  "theme", "accent_color", PyStr(<<"#", "2", "9", "7", "9", "F", "F">>)),
                  "theme", "bg_color", PyNone)
        b5 == SetIn(b4, "input", "description", PyStr(desc))
        b6 == SetIn(b5, "input", "images",
                    PyList(Val(Item(Item(b5, "input"), "images"))
                           \o [i \in 1..Len(imgs) |->
                                  PyDict([path |-> PyStr(imgs[i]),
                                          alt |-> PyStr(Stem(imgs[i]))])]))
    IN  DictSet(b6, "output_dir", PyStr(<<"o", "u", "t", "p", "u", "t">>))

InitGui ==
    /\ brand_name_var \in GuiBrandNames
    /\ slides_count_var \in GuiSlidesCounts
    /\ description_textbox \in GuiDescriptions
    /\ image_paths \in GuiImageLists
    /\ primary_color_var \in GuiColors
    /\ status_label = "Ready"
    /\ messagebox = "none"
    /\ result = Absent
    /\ platform \in Platforms
    /\ language \in Languages
    /\ files = { <<"p", "1">> }
    /\ pc = "idle"
    /\ text = << >>
    /\ split_sentences = << >>
    /\ slides_count = 0
    /\ slides = << >>
    /\ raised = "none"
    /\ count = 0
    /\ ideas = << >>
    /\ max_bullets = Absent
    /\ is_valid = TRUE
    /\ warnings = << >>
    /\ spec = << >>
    /\ slides_content = << >>
    /\ pptx = << >>
    /\ html = << >>
    /\ spec_valid = TRUE
    /\ errors = << >>
    /\ merged = << >>
    /\ IdleExcept({"proc", "files", "build", "config", "gui"})

\* what the handler's own steps leave alone
GuiFrame ==
    UNCHANGED <<language, split_sentences, count, ideas, max_bullets, is_valid, warnings,
                files, pptx, html, merged, brand_name_var, slides_count_var,
                description_textbox, image_paths, primary_color_var, platform, expandVars,
                audioVars, builderVars>>

\* the handler returns: its locals and those of build_presentation are gone
Return ==
    /\ pc' = "idle"
    /\ spec' = << >>
    /\ spec_valid' = TRUE
    /\ errors' = << >>
    /\ text' = << >>
    /\ slides_count' = 0
    /\ slides' = << >>
    /\ slides_content' = << >>

\* the handler goes on to position p with the locals of build_presentation
\* as they are
GoOn(p) ==
    /\ pc' = p
    /\ UNCHANGED <<text, slides_count, slides, slides_content>>

\* the user edits the form between two clicks
EditForm ==
    /\ pc = "idle"
    /\ brand_name_var' \in GuiBrandNames
    /\ slides_count_var' \in GuiSlidesCounts
    /\ description_textbox' \in GuiDescriptions
    /\ image_paths' \in GuiImageLists
    /\ primary_color_var' \in GuiColors
    /\ UNCHANGED <<procVars, files, expandVars, audioVars, buildVars, configVars, builderVars,
                   status_label, messagebox, result, platform>>

\* lines 241-245: the click and the first gate
GateBrandName ==
    /\ pc = "idle"
    /\ result' = Absent
    /\ raised' = "none"
    /\ IF Strip(brand_name_var) = << >>
       THEN Return /\ messagebox' = "Error: Please enter a brand/company name."
       ELSE /\ GoOn("gate_content")
            /\ messagebox' = messagebox
            /\ UNCHANGED <<spec, spec_valid, errors>>
    /\ UNCHANGED status_label
    /\ GuiFrame

\* lines 247-254: the second gate and the status of a running request
GateContent ==
    /\ pc = "gate_content"
    /\ IF Strip(description_textbox) = << >> /\ image_paths = << >> /\ audio_paths = << >>
       THEN /\ Return
            /\ messagebox' = "Error: Please provide a description, images, or audio files."
            /\ status_label' = status_label
       ELSE /\ GoOn("build_spec")
            /\ messagebox' = messagebox
            /\ status_label' = "Generating presentation..."
            /\ UNCHANGED <<spec, spec_valid, errors>>
    /\ UNCHANGED <<raised, result>>
    /\ GuiFrame

\* lines 257-282: IntVar.get() raises TclError when the spinbox holds no number
BuildSpecStep ==
    /\ pc = "build_spec"
    /\ IF slides_count_var[1] # "int"
       THEN GoOn("failed") /\ raised' = "TclError" /\ spec' = spec
       ELSE /\ GoOn("validate")
            /\ raised' = raised
            /\ spec' = GuiBuiltSpec(language, slides_count_var, brand_name_var,
                                    Strip(description_textbox), image_paths,
                                    primary_color_var)
    /\ UNCHANGED <<status_label, messagebox, result, spec_valid, errors>>
    /\ GuiFrame

\* ValidateStep without the return of lines 286-289: a rejected spec goes on
\* to build_presentation
ValidateStepLenient ==
    /\ pc = "validate"
    /\ GoOn("ready")
    /\ errors' = ValidateSpecErrors(spec)
    /\ spec_valid' = (ValidateSpecErrors(spec) = << >>)
    /\ UNCHANGED <<spec, messagebox, status_label, raised, result>>
    /\ GuiFrame

\* lines 285-289
ValidateStep ==
    /\ pc = "validate"
    /\ IF ValidateSpecErrors(spec) # << >>
       THEN /\ Return
            /\ messagebox' = "Validation Error"
            /\ status_label' = "Validation failed"
       ELSE /\ GoOn("ready")
            /\ errors' = ValidateSpecErrors(spec)
            /\ spec_valid' = TRUE
            /\ spec' = spec
            /\ messagebox' = messagebox
            /\ status_label' = status_label
    /\ UNCHANGED <<raised, result>>
    /\ GuiFrame

\* lines 291-301: build_presentation returned; the status and the dialog
ShowSuccess ==
    /\ pc = "returned"
    /\ GoOn("ask_open")
    /\ result' = Present([pptx |-> "output/presentation.pptx",
                          html |-> "output/presentation.html", status |-> "success"])
    /\ status_label' = "Generation complete!"
    /\ messagebox' = "Success"
    /\ UNCHANGED <<raised, spec, spec_valid, errors>>
    /\ GuiFrame

\* lines 301-302: the answer to the dialog; os.startfile exists on Windows only
AnswerOpenFolder(yes) ==
    /\ pc = "ask_open"
    /\ IF yes /\ platform # "win32"
       THEN /\ GoOn("failed")
            /\ raised' = "AttributeError"
            /\ UNCHANGED <<spec, spec_valid, errors>>
       ELSE Return /\ raised' = raised
    /\ UNCHANGED <<status_label, messagebox, result>>
    /\ GuiFrame

\* lines 304-308: the except clause
ExceptClause ==
    /\ pc = "failed"
    /\ Return
    /\ messagebox' = "Error: Failed to generate presentation"
    /\ status_label' = "Generation failed"
    /\ UNCHANGED <<raised, result>>
    /\ GuiFrame

NextGui ==
    \/ EditForm
    \/ GateBrandName
    \/ GateContent
    \/ BuildSpecStep
    \/ ValidateStep
    \/ BuildChooseText
    \/ BuildOutline
    \/ BuildAttachImages
    \/ BuildGeneratePptx
    \/ BuildGenerateHtml
    \/ ShowSuccess
    \/ \E yes \in BOOLEAN : AnswerOpenFolder(yes)
    \/ ExceptClause

SpecGui == InitGui /\ [][NextGui]_vars

(***************************************************************************)
(* The gates of the GUI's handler                                          *)

\* the positions of the handler inside build_presentation, from the call to
\* its return
InsideBuild ==
    {"ready", "text_chosen", "outlined", "images_attached", "pptx_saved", "returned"}

BrandGatePassed == Strip(brand_name_var) # << >>

ContentGatePassed ==
    Strip(description_textbox) # << >> \/ image_paths # << >> \/ audio_paths # << >>

\* a step on which the handler returns from one of its three gates
Rejects == (GateBrandName \/ GateContent \/ ValidateStep) /\ pc' = "idle"

\* C28: in the GUI build_presentation runs only after the three gates
\* passed in order (brand name not blank, then a description, an image or an
\* audio file present, then validate_spec accepting the spec built from the
\* form), so summarize_and_outline is never reached with slides_count below
\* 3; the two output files are written and the success status is set only
\* inside such a request, and a step that rejects a request writes no file,
\* gives no result and does not set the success status.
C28_GuiGates ==
    /\ [](pc = "gate_content" => BrandGatePassed)
    /\ [](pc \in {"build_spec", "validate"} => BrandGatePassed /\ ContentGatePassed)
    /\ [](pc \in InsideBuild =>
            /\ BrandGatePassed
            /\ ContentGatePassed
            /\ spec = GuiBuiltSpec(language, slides_count_var, brand_name_var,
                                   Strip(description_textbox), image_paths,
                                   primary_color_var)
            /\ ValidateSpecErrors(spec) = << >>
            /\ spec_valid
            /\ Val(Item(spec, "slides_count")) >= MinSlidesCount)
    /\ [][   (pptx' # pptx \/ html' # html) => (pc \in InsideBuild /\ pc' \in InsideBuild)]_vars
    /\ [][   (status_label' = "Generation complete!" /\ status_label # "Generation complete!")
          => pc = "returned"]_vars
    /\ [][   Rejects
          => /\ pptx' = pptx
             /\ html' = html
             /\ result' = Absent
             /\ (status_label' = "Generation complete!" => status_label = "Generation complete!")]_vars

\* build_presentation has returned for a request of images only, made after
\* a request that validate_spec rejected
C28_Witness ==
    /\ pc = "returned"
    /\ messagebox = "Validation Error"
    /\ Strip(description_textbox) = << >>
    /\ image_paths # << >>
    /\ pptx # << >>
    /\ html # << >>

(***************************************************************************)
(* The final statuses of a generate request                                *)

\* C30: once a request has set the status to "Generating presentation...",
\* the handler returns only with one of the final statuses "Validation
\* failed", "Generation complete!" or "Generation failed" on the status
\* bar, and "Generation failed" is on the status bar only when
\* build_presentation gave no result to the request that set it.
C30_FailedOnlyWithoutResult ==
    /\ (pc = "idle" => status_label # "Generating presentation...")
    /\ (status_label = "Generation failed" => result = Absent)

\* the same statement for a handler running on Windows
C30_OnWindows == platform = "win32" => C30_FailedOnlyWithoutResult

\* the except clause has run after build_presentation returned both files
FailedAfterSuccess ==
    /\ pc = "idle"
    /\ status_label = "Generation failed"
    /\ messagebox = "Error: Failed to generate presentation"
    /\ raised = "AttributeError"
    /\ result # Absent
    /\ pptx # << >>
    /\ html # << >>

----------------------------------------------------------------------------
(* validate_spec before build_presentation                                 *)
(*                                                                         *)
(* A caller validates a spec it was given and hands an accepted spec to    *)
(* build_presentation, as examples.py and the GUI do.  The specs are       *)
(* hand-written ones: the sections validate_spec does not ask for may be   *)
(* missing or empty.                                                       *)

AcceptLengthTargets ==
    {Absent, Present(PyDict(EmptyDict)),
     Present(PyDict([summary_words |-> PyInt(SummaryWords)]))}

AcceptFooters ==
    {Absent, Present(PyDict(EmptyDict)), Present(PyDict([text |-> PyStr(<<"F">>)]))}

AcceptThemes ==
    {PyDict(EmptyDict), PyDict([primary_color |-> PyStr(<<"#", "1", "F", "2", "D", "3", "D">>)])}

AcceptDescriptions == {<< >>, <<" ", " ">>, NSentences(4)}

AcceptImages == {Absent, Present(PyList(ImagesOf(1)))}

AcceptSlidesCounts == {MinSlidesCount - 1, MinSlidesCount}

AcceptedSpec(sc, theme, desc, imgs, footer, lt, research) ==
    WithOpt(WithOpt(
        PyDict([slides_count |-> PyInt(sc),
                user |-> PyDict([brand_name |-> PyStr(<<"B">>)]),
                theme |-> theme,
                input |-> WithOpt(PyDict([description |-> PyStr(desc)]), "images", imgs),
                enable_research |-> PyBool(research)]),
        "footer", footer), "length_target", lt)

AcceptSpecs ==
    {AcceptedSpec(sc, theme, desc, imgs, footer, lt, research) :
        sc \in AcceptSlidesCounts, theme \in AcceptThemes, desc \in AcceptDescriptions,
        imgs \in AcceptImages, footer \in AcceptFooters, lt \in AcceptLengthTargets,
        research \in BOOLEAN}

InitAccept ==
    /\ spec \in AcceptSpecs
    /\ language \in Languages
    /\ files = { <<"p", "1">> }
    /\ slides_content = << >>
    /\ pptx = << >>
    /\ html = << >>
    /\ spec_valid = TRUE
    /\ errors = << >>
    /\ merged = << >>
    /\ text = << >>
    /\ pc = "unchecked"
    /\ split_sentences = << >>
    /\ slides_count = 0
    /\ slides = << >>
    /\ raised = "none"
    /\ count = 0
    /\ ideas = << >>
    /\ max_bullets = Absent
    /\ is_valid = TRUE
    /\ warnings = << >>
    /\ IdleExcept({"proc", "files", "build", "config"})

\* is_valid, errors = validate_spec(spec); a rejected spec is not built
AcceptSpec ==
    /\ pc = "unchecked"
    /\ errors' = ValidateSpecErrors(spec)
    /\ spec_valid' = (Len(ValidateSpecErrors(spec)) = 0)
    /\ pc' = IF Len(ValidateSpecErrors(spec)) = 0 THEN "ready" ELSE "rejected"
    /\ UNCHANGED <<merged, buildVars, files, expandVars, audioVars, builderVars, guiVars>>
    /\ UNCHANGED <<language, text, split_sentences, slides_count, slides, raised, count,
                   ideas, max_bullets, is_valid, warnings>>

NextAccept ==
    \/ AcceptSpec
    \/ BuildChooseText
    \/ BuildOutline
    \/ BuildAttachImages
    \/ BuildGeneratePptx
    \/ BuildGenerateHtml

SpecAccept == InitAccept /\ [][NextAccept]_vars

\* C29: a spec that validate_spec accepted goes through build_presentation
\* without a missing-key or a division-by-zero failure: the keys that
\* build_presentation and the renderers read without a default are
\* present, and no step ends with KeyError or ZeroDivisionError.
C29_AcceptanceSuffices ==
    (pc # "unchecked" /\ spec_valid) =>
        /\ Has(spec, "length_target") /\ Has(Item(spec, "length_target"), "summary_words")
        /\ Has(spec, "footer") /\ Has(Item(spec, "footer"), "text")
        /\ ~(pc = "failed" /\ raised \in {"KeyError", "ZeroDivisionError"})

\* a spec with every section, a description of words and no research is
\* accepted and built
AcceptedAndBuilt ==
    /\ pc = "returned"
    /\ spec_valid
    /\ pptx # << >>
    /\ html # << >>

\* accepted specs that fail in build_presentation
AcceptedThenKeyError == spec_valid /\ pc = "failed" /\ raised = "KeyError"
AcceptedThenZeroDivision ==
    /\ spec_valid
    /\ pc = "failed"
    /\ raised = "ZeroDivisionError"
    /\ Has(spec, "length_target")
    /\ Has(Item(spec, "length_target"), "summary_words")

====
